---------------------------- MODULE Spec2Model ----------------------------
(***************************************************************************)
(* A model of the Advent of Code harness: the character scanner            *)
(* (src/src/string_scanner.rs), the grid index arithmetic                  *)
(* (src/src/grid.rs) and the harness loop of main (src/src/main.rs).       *)
(*                                                                         *)
(* Characters are Unicode code points (Rust's char), strings are sequences *)
(* of characters.  usize is modelled with UsizeBits bits: an addition that *)
(* exceeds the word panics when the build checks overflow (debug) and      *)
(* wraps modulo 2^UsizeBits when it does not (release).                    *)
(***************************************************************************)
EXTENDS Integers, Sequences, FiniteSets, TLC

(***************************************************************************)
(* Bounds of the model.                                                    *)
(***************************************************************************)
UsizeBits == 5

MaxLen == 3

MaxText == 2

MaxWidth == 4

MaxHeight == 3

MaxLines == 3

MaxMaps == 2

MaxRanges == 2

MaxValue == 6

MaxLineLen == 4

MaxSchematicHeight == 2

MaxDirections == 2

MaxSteps == 7

MaxJokers == 2

MaxHands == 2

MaxSeqLen == 4

MaxRaces == 2

MaxTime == 7

MaxDistance == 12

MaxUniverseHeight == 3

MaxFactor == 3

MaxMazeHeight == 3

MaxPathLen == 10

MaxCards == 3

MaxMapLines == 3

MaxGames == 3

Modulus == 2 ^ UsizeBits

UsizeMax == Modulus - 1

SeqUpTo(S, n) == UNION {[1..k -> S] : k \in 0..n}

Min(a, b) == IF a <= b THEN a ELSE b

(***************************************************************************)
(* Characters and strings.                                                 *)
(***************************************************************************)
\* ' ', '2', 'a', U+00E9 (two bytes in UTF-8)
Alphabet == {32, 50, 97, 233}

TextAlphabet == {97, 233}

\* "20 January", "255", "256", "65536", "007a"
ExtraSources ==
    { <<50, 48, 32, 74, 97, 110, 117, 97, 114, 121>>,
      <<50, 53, 53>>,
      <<50, 53, 54>>,
      <<54, 53, 53, 51, 54>>,
      <<48, 48, 55, 97>> }

Sources == SeqUpTo(Alphabet, MaxLen) \cup ExtraSources

\* char::len_utf8
len_utf8(c) ==
    IF c < 128 THEN 1 ELSE IF c < 2048 THEN 2 ELSE IF c < 65536 THEN 3 ELSE 4

RECURSIVE str_len(_)
\* str::len: the length of the string in bytes
str_len(text) ==
    IF text = <<>> THEN 0 ELSE len_utf8(Head(text)) + str_len(Tail(text))

\* char::is_ascii_digit
is_ascii_digit(c) == 48 <= c /\ c <= 57

\* char::is_whitespace (the White_Space code points)
is_whitespace(c) ==
    \/ 9 <= c /\ c <= 13
    \/ c \in {32, 133, 160, 5760, 8232, 8233, 8239, 8287, 12288}
    \/ 8192 <= c /\ c <= 8202

AllChars == 0..1114111

AsciiDigits == {c \in AllChars : is_ascii_digit(c)}

Whitespace == {c \in AllChars : is_whitespace(c)}

None == [some |-> FALSE]

Some(v) == [some |-> TRUE, val |-> v]

(***************************************************************************)
(* StringScanner: a scanner is [chars, current_position].                  *)
(***************************************************************************)
new(source) == [chars |-> source, current_position |-> 0]

is_finished(s) == s.current_position >= Len(s.chars)

peek(s) ==
    IF is_finished(s) THEN None ELSE Some(s.chars[s.current_position + 1])

peek_forward(s, n) ==
    IF (s.current_position + n) >= Len(s.chars)
    THEN None
    ELSE Some(s.chars[s.current_position + n + 1])

\* the loop returns false at the first index whose character differs
peek_string(s, other) ==
    \A i \in 0..(Len(other) - 1) : peek_forward(s, i) = Some(other[i + 1])

advance(s) ==
    IF ~is_finished(s)
    THEN [s EXCEPT !.current_position = s.current_position + 1]
    ELSE s

\* current_position += n overflows the word
advance_by_overflows(s, n) == s.current_position + n > UsizeMax

\* advance_by with the addition wrapping (overflow checks off)
advance_by(s, n) ==
    LET sum == (s.current_position + n) % Modulus
    IN  IF sum > Len(s.chars)
        THEN [s EXCEPT !.current_position = Len(s.chars)]
        ELSE [s EXCEPT !.current_position = sum]

match_char_AdvancesOnMismatch(s, c) ==
    [scanner |-> advance(s), result |-> peek(s) = Some(c)]

match_char(s, c) ==
    IF peek(s) = Some(c)
    THEN [scanner |-> advance(s), result |-> TRUE]
    ELSE [scanner |-> s, result |-> FALSE]

\* other.len() is the byte length of other
match_string(s, other) ==
    IF peek_string(s, other)
    THEN [scanner |-> advance_by(s, str_len(other)), result |-> TRUE]
    ELSE [scanner |-> s, result |-> FALSE]

read_while_StopsOneShort(s, char_func) ==
    LET n == Len(s.chars)
        stop[p \in 0..n] ==
            IF p >= n THEN p
            ELSE IF s.chars[p + 1] \in char_func THEN stop[p + 1] ELSE p
        full == stop[s.current_position]
        end == IF full > s.current_position + 1 THEN full - 1 ELSE full
    IN  [scanner |-> [s EXCEPT !.current_position = end],
         result |-> SubSeq(s.chars, s.current_position + 1, end)]

\* char_func is the set of the characters the predicate accepts
read_while(s, char_func) ==
    LET n == Len(s.chars)
        stop[p \in 0..n] ==
            IF p >= n THEN p
            ELSE IF s.chars[p + 1] \in char_func THEN stop[p + 1] ELSE p
        end == stop[s.current_position]
    IN  [scanner |-> [s EXCEPT !.current_position = end],
         result |-> SubSeq(s.chars, s.current_position + 1, end)]

read_whitespace(s) == read_while(s, Whitespace)

UintTypes == {"u8", "u16"}

\* T::MAX; u64 is cut to the 31 bits that the checker's numbers have
uint_max(T) ==
    IF T = "u8" THEN 255 ELSE IF T = "u16" THEN 65535 ELSE 2147483647

from_str_Wrapping(T, text) ==
    LET acc[k \in 0..Len(text)] ==
            IF k = 0 THEN 0
            ELSE (acc[k - 1] * 10 + (text[k] - 48)) % (uint_max(T) + 1)
    IN  IF text = <<>>
        THEN [ok |-> FALSE, error |-> "Empty"]
        ELSE [ok |-> TRUE, value |-> acc[Len(text)]]

\* T::from_str on a string of ASCII digits: checked_mul(10) then checked_add(digit)
from_str(T, text) ==
    LET acc[k \in 0..Len(text)] ==
            IF k = 0 THEN 0
            ELSE IF acc[k - 1] = -1 THEN -1
            ELSE IF acc[k - 1] * 10 > uint_max(T) THEN -1
            ELSE IF acc[k - 1] * 10 + (text[k] - 48) > uint_max(T) THEN -1
            ELSE acc[k - 1] * 10 + (text[k] - 48)
    IN  IF text = <<>>
        THEN [ok |-> FALSE, error |-> "Empty"]
        ELSE IF acc[Len(text)] = -1
        THEN [ok |-> FALSE, error |-> "PosOverflow"]
        ELSE [ok |-> TRUE, value |-> acc[Len(text)]]

expect_uint(s, T) ==
    LET read == read_while(s, AsciiDigits)
        parsed == from_str(T, read.result)
    IN  IF parsed.ok
        THEN [scanner |-> read.scanner,
              result |-> [ok |-> TRUE, value |-> parsed.value]]
        ELSE [scanner |-> read.scanner,
              result |-> [ok |-> FALSE, kind |-> "NotAUint",
                          source_error |-> parsed.error,
                          position |-> read.scanner.current_position]]

expect_char(s, c) ==
    LET m == match_char(s, c)
    IN  IF m.result
        THEN [scanner |-> m.scanner, result |-> [ok |-> TRUE]]
        ELSE [scanner |-> m.scanner,
              result |-> [ok |-> FALSE, kind |-> "UnexpectedChar",
                          expected |-> c,
                          position |-> m.scanner.current_position]]

expect_string(s, other) ==
    LET m == match_string(s, other)
    IN  IF m.result
        THEN [scanner |-> m.scanner, result |-> [ok |-> TRUE]]
        ELSE [scanner |-> m.scanner,
              result |-> [ok |-> FALSE, kind |-> "UnexpectedString",
                          expected |-> other,
                          position |-> m.scanner.current_position]]

(***************************************************************************)
(* Grid and Direction: a grid is [width, height], a point is [x, y].       *)
(***************************************************************************)
Direction_all_Clockwise ==
    <<"North", "NorthEast", "East", "SouthEast",
      "South", "SouthWest", "West", "NorthWest">>

Direction_all ==
    <<"NorthWest", "North", "NorthEast", "West",
      "East", "SouthWest", "South", "SouthEast">>

Point_new(x, y) == [x |-> x, y |-> y]

Grid_new(width, height) == [width |-> width, height |-> height]

to_point_DividesByHeight(g, idx) ==
    [x |-> idx % g.height, y |-> idx \div g.height]

to_point(g, idx) == [x |-> idx % g.width, y |-> idx \div g.width]

to_index(g, point) == point.y * g.width + point.x

neighbour_EastUpToMaxX(g, idx, direction) ==
    LET x == to_point(g, idx).x
        y == to_point(g, idx).y
        max_x == g.width - 1
        max_y == g.height - 1
    IN  CASE direction = "North" /\ y > 0 ->
                Some(to_index(g, Point_new(x, y - 1)))
          [] direction = "South" /\ y < max_y ->
                Some(to_index(g, Point_new(x, y + 1)))
          [] direction = "West" /\ x > 0 ->
                Some(to_index(g, Point_new(x - 1, y)))
          [] direction = "East" /\ x <= max_x ->
                Some(to_index(g, Point_new(x + 1, y)))
          [] direction = "NorthWest" /\ (x > 0 /\ y > 0) ->
                Some(to_index(g, Point_new(x - 1, y - 1)))
          [] direction = "NorthEast" /\ (x < max_x /\ y > 0) ->
                Some(to_index(g, Point_new(x + 1, y - 1)))
          [] direction = "SouthWest" /\ (x > 0 /\ y < max_y) ->
                Some(to_index(g, Point_new(x - 1, y + 1)))
          [] direction = "SouthEast" /\ (x < max_x /\ y < max_y) ->
                Some(to_index(g, Point_new(x + 1, y + 1)))
          [] OTHER -> None

neighbour(g, idx, direction) ==
    LET x == to_point(g, idx).x
        y == to_point(g, idx).y
        max_x == g.width - 1
        max_y == g.height - 1
    IN  CASE direction = "North" /\ y > 0 ->
                Some(to_index(g, Point_new(x, y - 1)))
          [] direction = "South" /\ y < max_y ->
                Some(to_index(g, Point_new(x, y + 1)))
          [] direction = "West" /\ x > 0 ->
                Some(to_index(g, Point_new(x - 1, y)))
          [] direction = "East" /\ x < max_x ->
                Some(to_index(g, Point_new(x + 1, y)))
          [] direction = "NorthWest" /\ (x > 0 /\ y > 0) ->
                Some(to_index(g, Point_new(x - 1, y - 1)))
          [] direction = "NorthEast" /\ (x < max_x /\ y > 0) ->
                Some(to_index(g, Point_new(x + 1, y - 1)))
          [] direction = "SouthWest" /\ (x > 0 /\ y < max_y) ->
                Some(to_index(g, Point_new(x - 1, y + 1)))
          [] direction = "SouthEast" /\ (x < max_x /\ y < max_y) ->
                Some(to_index(g, Point_new(x + 1, y + 1)))
          [] OTHER -> None

\* filter_map over Direction::all(), collected in that order
neighbours(g, idx) ==
    LET all == Direction_all
        collected[k \in 0..Len(all)] ==
            IF k = 0 THEN <<>>
            ELSE LET n == neighbour(g, idx, all[k])
                 IN  IF n.some
                     THEN Append(collected[k - 1], n.val)
                     ELSE collected[k - 1]
    IN  collected[Len(all)]

Grid_len(g) == g.width * g.height

indices(g) == 0..(Grid_len(g) - 1)

(***************************************************************************)
(* Day 5: an almanac is a list of value maps, a value map a list of        *)
(* ranges [destination_start, source_start, source_length].                *)
(***************************************************************************)
ValueMapRange_new(destination_start, source_start, source_length) ==
    [destination_start |-> destination_start,
     source_start |-> source_start,
     source_length |-> source_length]

ValueMapRange_map_value(range, value) ==
    LET end == range.source_start + range.source_length
    IN  IF range.source_start <= value /\ value < end
        THEN LET delta == value - range.source_start
             IN  Some(range.destination_start + delta)
        ELSE None

ValueMap_map_value_LastMatchWins(map, value) ==
    LET found[k \in 0..Len(map)] ==
            IF k = 0 THEN None
            ELSE LET mapped == ValueMapRange_map_value(map[k], value)
                 IN  IF mapped.some THEN mapped ELSE found[k - 1]
    IN  IF found[Len(map)].some THEN found[Len(map)].val ELSE value

\* find_map: the first range, in the map's order, that maps the value
ValueMap_map_value(map, value) ==
    LET found[k \in 1..(Len(map) + 1)] ==
            IF k > Len(map) THEN None
            ELSE LET mapped == ValueMapRange_map_value(map[k], value)
                 IN  IF mapped.some THEN mapped ELSE found[k + 1]
    IN  IF found[1].some THEN found[1].val ELSE value

RECURSIVE expand_from(_, _, _)
\* the while loop of SeedBehaviour::expand in Range mode from index i on:
\* seeds[i + 1] is an index out of bounds when one value is left over
expand_from(given, i, expanded) ==
    IF i >= Len(given) THEN [kind |-> "ok", value |-> expanded]
    ELSE IF i + 1 >= Len(given) THEN [kind |-> "panicked"]
    ELSE expand_from(given, i + 2,
            expanded \o [n \in 1..given[i + 2] |-> given[i + 1] + n - 1])

SeedBehaviour_expand(behaviour, given) ==
    IF behaviour = "Simple" THEN [kind |-> "ok", value |-> given]
    ELSE expand_from(given, 0, <<>>)

\* fold over the value maps in their order
calculate_location(maps, value) ==
    LET acc[k \in 0..Len(maps)] ==
            IF k = 0 THEN value
            ELSE ValueMap_map_value(maps[k], acc[k - 1])
    IN  acc[Len(maps)]

(***************************************************************************)
(* Day 1: the digits of a line, with or without the number words.          *)
(***************************************************************************)
\* ("zero", 0) .. ("nine", 9), ("0", 0) .. ("9", 9), in this order
TOKENS_AND_VALUES ==
    <<<<<<122, 101, 114, 111>>, 0>>,
      <<<<111, 110, 101>>, 1>>,
      <<<<116, 119, 111>>, 2>>,
      <<<<116, 104, 114, 101, 101>>, 3>>,
      <<<<102, 111, 117, 114>>, 4>>,
      <<<<102, 105, 118, 101>>, 5>>,
      <<<<115, 105, 120>>, 6>>,
      <<<<115, 101, 118, 101, 110>>, 7>>,
      <<<<101, 105, 103, 104, 116>>, 8>>,
      <<<<110, 105, 110, 101>>, 9>>,
      <<<<48>>, 0>>,
      <<<<49>>, 1>>,
      <<<<50>>, 2>>,
      <<<<51>>, 3>>,
      <<<<52>>, 4>>,
      <<<<53>>, 5>>,
      <<<<54>>, 6>>,
      <<<<55>>, 7>>,
      <<<<56>>, 8>>,
      <<<<57>>, 9>>>>

DigitExtractor_next_SkipsTheToken(s) ==
    LET n == Len(s.chars)
        at(p) == [s EXCEPT !.current_position = p]
        hits(p) == {k \in 1..Len(TOKENS_AND_VALUES) :
                        peek_string(at(p), TOKENS_AND_VALUES[k][1])}
        first(p) == CHOOSE k \in hits(p) : \A j \in hits(p) : k <= j
        found[p \in 0..n] ==
            IF is_finished(at(p)) THEN [scanner |-> at(p), result |-> None]
            ELSE IF hits(p) # {}
            THEN [scanner |-> advance_by(at(p), str_len(TOKENS_AND_VALUES[first(p)][1])),
                  result |-> Some(TOKENS_AND_VALUES[first(p)][2])]
            ELSE found[advance(at(p)).current_position]
    IN  found[s.current_position]

\* DigitExtractor::next: at each cursor the first token of the table that
\* matches gives the digit and the cursor moves on by one character
DigitExtractor_next(s) ==
    LET n == Len(s.chars)
        at(p) == [s EXCEPT !.current_position = p]
        hits(p) == {k \in 1..Len(TOKENS_AND_VALUES) :
                        peek_string(at(p), TOKENS_AND_VALUES[k][1])}
        first(p) == CHOOSE k \in hits(p) : \A j \in hits(p) : k <= j
        found[p \in 0..n] ==
            IF is_finished(at(p)) THEN [scanner |-> at(p), result |-> None]
            ELSE IF hits(p) # {}
            THEN [scanner |-> advance(at(p)),
                  result |-> Some(TOKENS_AND_VALUES[first(p)][2])]
            ELSE found[advance(at(p)).current_position]
    IN  found[s.current_position]

\* the iterator of extract_digits_no_words: the next ASCII digit of the line
no_words_next(s) ==
    LET n == Len(s.chars)
        at(p) == [s EXCEPT !.current_position = p]
        found[p \in 0..n] ==
            IF p >= n THEN [scanner |-> at(p), result |-> None]
            ELSE IF is_ascii_digit(s.chars[p + 1])
            THEN [scanner |-> at(p + 1), result |-> Some(s.chars[p + 1] - 48)]
            ELSE found[p + 1]
    IN  found[s.current_position]

\* first_digit.map_or(0, |x| x * 10 + last_digit)
extract_number_result(first_digit, last_digit) ==
    IF first_digit.some THEN first_digit.val * 10 + last_digit ELSE 0

(***************************************************************************)
(* Day 3: a schematic is [squares, numbers]; a point is <<x, y>>.          *)
(***************************************************************************)
\* values of 10000 and more reach unreachable!()
calculate_num_digits(value) ==
    IF value < 10 THEN 1
    ELSE IF value < 100 THEN 2
    ELSE IF value < 1000 THEN 3
    ELSE 4

Gear_ratio(gear) == gear.value_1 * gear.value_2

RECURSIVE line_numbers(_, _, _, _)
\* the while loop of from_lines over one line: each turn either reads a
\* number at the cursor or steps over one character; status is "ok", "err"
\* (a number that is no u16) or "panic" (unreachable!() in
\* calculate_num_digits).  The loop's variables are taken by value.
line_numbers(line_scanner, x, y, numbers) ==
    CHOOSE result \in
        {IF is_finished(s) THEN [status |-> "ok", numbers |-> found]
         ELSE IF peek(s).some /\ is_ascii_digit(peek(s).val)
         THEN CHOOSE after \in
                {IF ~read.result.ok THEN [status |-> "err", numbers |-> found]
                 ELSE IF read.result.value >= 10000
                 THEN [status |-> "panic", numbers |-> found]
                 ELSE line_numbers(read.scanner,
                          column + calculate_num_digits(read.result.value),
                          y,
                          Append(found,
                              [value |-> read.result.value,
                               num_digits |-> calculate_num_digits(read.result.value),
                               position |-> <<column, y>>])) :
                    read \in {expect_uint(s, "u16")}} : TRUE
         ELSE line_numbers(advance(s), column + 1, y, found) :
            s \in {line_scanner}, column \in {x}, found \in {numbers}} : TRUE

RECURSIVE lines_numbers(_, _, _)
\* the for loop of from_lines from line y on
lines_numbers(lines, y, numbers) ==
    CHOOSE result \in
        {IF row_y >= Len(lines) THEN [status |-> "ok", numbers |-> found]
         ELSE CHOOSE after \in
                {IF row.status # "ok" THEN row
                 ELSE lines_numbers(lines, row_y + 1, row.numbers) :
                    row \in {line_numbers(new(lines[row_y + 1]), 0, row_y, found)}} : TRUE :
            row_y \in {y}, found \in {numbers}} : TRUE

\* Schematic::from_lines
from_lines(lines) ==
    LET found == lines_numbers(lines, 0, <<>>)
    IN  [status |-> found.status, squares |-> lines, numbers |-> found.numbers]

Schematic_width(schematic) == Len(schematic.squares[1])

Schematic_height(schematic) == Len(schematic.squares)

is_star_at(schematic, point) ==
    schematic.squares[point[2] + 1][point[1] + 1] = 42

neighbours_for_RowsStopAtLastDigit(schematic, number) ==
    LET x == number.position[1]
        y == number.position[2]
        num_digits == number.num_digits
        height == Schematic_height(schematic)
        width == Schematic_width(schematic)
        min_x == IF x > 0 THEN x - 1 ELSE 0
        max_x == IF (x + num_digits) < width THEN x + num_digits ELSE width
        left == IF x > 0 THEN <<<<x - 1, y>>>> ELSE <<>>
        right == IF (x + num_digits) < width THEN <<<<x + num_digits, y>>>> ELSE <<>>
        top_row == IF y > 0
                   THEN [i \in 1..(max_x - min_x) |-> <<min_x + i - 1, y - 1>>]
                   ELSE <<>>
        bottom_row == IF y < (height - 1)
                      THEN [i \in 1..(max_x - min_x) |-> <<min_x + i - 1, y + 1>>]
                      ELSE <<>>
    IN  top_row \o left \o right \o bottom_row

\* Schematic::neighbours_for: the row above, left, right, the row below
neighbours_for(schematic, number) ==
    LET x == number.position[1]
        y == number.position[2]
        num_digits == number.num_digits
        height == Schematic_height(schematic)
        width == Schematic_width(schematic)
        min_x == IF x > 0 THEN x - 1 ELSE 0
        max_x == IF (x + num_digits + 1) < width THEN x + num_digits + 1 ELSE width
        left == IF x > 0 THEN <<<<x - 1, y>>>> ELSE <<>>
        right == IF (x + num_digits) < width THEN <<<<x + num_digits, y>>>> ELSE <<>>
        top_row == IF y > 0
                   THEN [i \in 1..(max_x - min_x) |-> <<min_x + i - 1, y - 1>>]
                   ELSE <<>>
        bottom_row == IF y < (height - 1)
                      THEN [i \in 1..(max_x - min_x) |-> <<min_x + i - 1, y + 1>>]
                      ELSE <<>>
    IN  top_row \o left \o right \o bottom_row

\* the pushes of get_gears in the order they are made: [position, value]
\* for every number and every neighbour of it that holds a star
gear_pushes(schematic) ==
    LET of(number) ==
            LET stars == SelectSeq(neighbours_for(schematic, number),
                                   LAMBDA p : is_star_at(schematic, p))
            IN  [i \in 1..Len(stars) |-> [position |-> stars[i], value |-> number.value]]
        upto[k \in 0..Len(schematic.numbers)] ==
            IF k = 0 THEN <<>> ELSE upto[k - 1] \o of(schematic.numbers[k])
    IN  upto[Len(schematic.numbers)]

\* potential_gears: for every star that was pushed to, the values in push order
potential_gears(schematic) ==
    LET pushes == gear_pushes(schematic)
        keys == {pushes[i].position : i \in 1..Len(pushes)}
    IN  [p \in keys |->
            LET mine == SelectSeq(pushes, LAMBDA push : push.position = p)
            IN  [i \in 1..Len(mine) |-> mine[i].value]]

\* the orders in which a HashMap's values may be visited
value_orders(map) ==
    {order \in [1..Cardinality(DOMAIN map) -> DOMAIN map] :
        \A p \in DOMAIN map : \E i \in DOMAIN order : order[i] = p}

get_gears_TwoOrMore(schematic, order) ==
    LET map == potential_gears(schematic)
        values == [i \in 1..Len(order) |-> map[order[i]]]
        kept == SelectSeq(values, LAMBDA v : Len(v) >= 2)
    IN  [i \in 1..Len(kept) |-> [value_1 |-> kept[i][1], value_2 |-> kept[i][2]]]

\* Schematic::get_gears, the map's values visited in the given order
get_gears(schematic, order) ==
    LET map == potential_gears(schematic)
        values == [i \in 1..Len(order) |-> map[order[i]]]
        kept == SelectSeq(values, LAMBDA v : Len(v) = 2)
    IN  [i \in 1..Len(kept) |-> [value_1 |-> kept[i][1], value_2 |-> kept[i][2]]]

\* Iterator::sum over the gears' ratios
sum_of_ratios(gears) ==
    LET upto[k \in 0..Len(gears)] ==
            IF k = 0 THEN 0 ELSE upto[k - 1] + Gear_ratio(gears[k])
    IN  upto[Len(gears)]

RECURSIVE to_string(_)
\* the decimal digits of an unsigned number, as characters
to_string(n) ==
    IF n < 10 THEN <<48 + n>> ELSE Append(to_string(n \div 10), 48 + (n % 10))

(***************************************************************************)
(* Day 8: a map is [directions, nodes]; nodes is a function from node ids  *)
(* to [left, right]; a node id is a string of characters.                  *)
(***************************************************************************)
NodeId_new(id) == id

NodeId_ends_with(node_id, c) == node_id # <<>> /\ node_id[Len(node_id)] = c

is_zzz(node_id) == node_id = NodeId_new(<<90, 90, 90>>)

ends_with_z(node_id) == NodeId_ends_with(node_id, 90)

Node_new(left, right) == [left |-> left, right |-> right]

next_node_id_AlwaysLeft(node, direction) == node.left

next_node_id(node, direction) ==
    IF direction = "Left" THEN node.left ELSE node.right

end_holds_AlwaysIsZzz(end, node_id) == is_zzz(node_id)

\* the predicates that the two parts pass as end
end_holds(end, node_id) ==
    IF end = "is_zzz" THEN is_zzz(node_id) ELSE ends_with_z(node_id)

(***************************************************************************)
(* Day 7: a hand is a sequence of five labels.                             *)
(***************************************************************************)
\* enum Label, in the order of its declaration (the derived Ord)
Label ==
    <<"Two", "Three", "Four", "Five", "Six", "Seven", "Eight", "Nine", "Ten",
      "Jack", "Queen", "King", "Ace">>

\* enum HandType, in the order of its declaration (the derived Ord)
HandType ==
    <<"HighCard", "OnePair", "TwoPair", "ThreeOfAKind", "FullHouse",
      "FourOfAKind", "FiveOfAKind">>

\* the place of a variant in its enum
discriminant(enum, variant) == CHOOSE i \in 1..Len(enum) : enum[i] = variant

\* Ord::cmp of two numbers
cmp(a, b) == IF a < b THEN "Less" ELSE IF a = b THEN "Equal" ELSE "Greater"

Label_cmp(a, b) == cmp(discriminant(Label, a), discriminant(Label, b))

HandType_cmp(a, b) == cmp(discriminant(HandType, a), discriminant(HandType, b))

Label_from_char(c) ==
    IF c = 65 THEN [ok |-> TRUE, value |-> "Ace"]
    ELSE IF c = 75 THEN [ok |-> TRUE, value |-> "King"]
    ELSE IF c = 81 THEN [ok |-> TRUE, value |-> "Queen"]
    ELSE IF c = 74 THEN [ok |-> TRUE, value |-> "Jack"]
    ELSE IF c = 84 THEN [ok |-> TRUE, value |-> "Ten"]
    ELSE IF 50 <= c /\ c <= 57 THEN [ok |-> TRUE, value |-> Label[c - 49]]
    ELSE [ok |-> FALSE, kind |-> "General"]

is_joker(label) == label = "Jack"

non_jokers_WithoutAce ==
    <<"Two", "Three", "Four", "Five", "Six", "Seven", "Eight", "Nine", "Ten",
      "Queen", "King">>

non_jokers ==
    <<"Two", "Three", "Four", "Five", "Six", "Seven", "Eight", "Nine", "Ten",
      "Queen", "King", "Ace">>

joker_cmp_JackStaysHigh(a, b) == Label_cmp(a, b)

joker_cmp(a, b) ==
    IF a = b THEN "Equal"
    ELSE IF a = "Jack" THEN "Less"
    ELSE IF b = "Jack" THEN "Greater"
    ELSE Label_cmp(a, b)

\* Hand::from_string_scanner: five labels from the cursor on
Hand_from_string_scanner(s) ==
    LET read[k \in 0..5] ==
            IF k = 0 THEN [ok |-> TRUE, labels |-> <<>>]
            ELSE CHOOSE after \in
                {IF ~before_k.ok THEN before_k
                 ELSE IF s.current_position + k - 1 >= Len(s.chars)
                 THEN [ok |-> FALSE, kind |-> "General"]
                 ELSE CHOOSE pushed \in
                    {IF label.ok
                     THEN [ok |-> TRUE, labels |-> Append(before_k.labels, label.value)]
                     ELSE label :
                        label \in {Label_from_char(s.chars[s.current_position + k])}} :
                    TRUE :
                    before_k \in {read[k - 1]}} : TRUE
    IN  CHOOSE done \in
            {IF labels.ok
             THEN [scanner |-> [s EXCEPT !.current_position = s.current_position + 5],
                   result |-> [ok |-> TRUE, value |-> labels.labels]]
             ELSE [scanner |-> s, result |-> labels] :
                labels \in {read[5]}} : TRUE

hand_type_NeverFullHouse(hand) ==
    LET labels == {hand[i] : i \in 1..Len(hand)}
        label_counts == [label \in labels |->
                            Cardinality({i \in 1..Len(hand) : hand[i] = label})]
        counts == {label_counts[label] : label \in labels}
        last == CHOOSE count \in counts : \A other \in counts : other <= count
        first == CHOOSE count \in counts : \A other \in counts : count <= other
    IN  IF last = 5 THEN "FiveOfAKind"
        ELSE IF last = 4 THEN "FourOfAKind"
        ELSE IF last = 3 THEN "ThreeOfAKind"
        ELSE IF last = 2
        THEN IF Cardinality(labels) = 3 THEN "TwoPair" ELSE "OnePair"
        ELSE "HighCard"

\* Hand::hand_type: counts is the sorted list of the labels' counts, last
\* its greatest entry, first its least
hand_type(hand) ==
    LET labels == {hand[i] : i \in 1..Len(hand)}
        label_counts == [label \in labels |->
                            Cardinality({i \in 1..Len(hand) : hand[i] = label})]
        counts == {label_counts[label] : label \in labels}
        last == CHOOSE count \in counts : \A other \in counts : other <= count
        first == CHOOSE count \in counts : \A other \in counts : count <= other
    IN  IF last = 5 THEN "FiveOfAKind"
        ELSE IF last = 4 THEN "FourOfAKind"
        ELSE IF last = 3
        THEN IF first = 2 THEN "FullHouse" ELSE "ThreeOfAKind"
        ELSE IF last = 2
        THEN IF Cardinality(labels) = 3 THEN "TwoPair" ELSE "OnePair"
        ELSE "HighCard"

replaced(hand, i, new_label) == [hand EXCEPT ![i + 1] = new_label]

RECURSIVE possible_hands(_)
\* Hand::possible_hands: the hand popped from the stack is either concrete
\* or replaced by its twelve expansions at the first joker, the last pushed
\* of them popped (and expanded to the end) first
possible_hands(hand) ==
    LET jokers == {i \in 0..(Len(hand) - 1) : is_joker(hand[i + 1])}
        position == CHOOSE i \in jokers : \A j \in jokers : i <= j
        expanded[k \in 0..Len(non_jokers)] ==
            IF k = 0 THEN <<>>
            ELSE possible_hands(replaced(hand, position, non_jokers[k])) \o expanded[k - 1]
    IN  IF jokers = {} THEN <<hand>> ELSE expanded[Len(non_jokers)]

\* Iterator::max_by: an element that none of the others is greater than
\* (the last of them, which for hand types is the same value)
max_by_HandType_cmp(types) ==
    LET elements == {types[k] : k \in 1..Len(types)}
    IN  IF elements = {} THEN None
        ELSE Some(CHOOSE best \in elements :
                    \A other \in elements : HandType_cmp(other, best) # "Greater")

\* Hand::best_hand_type; unwrap_or_default gives HighCard
best_hand_type(hand) ==
    CHOOSE type \in
        {IF best.some THEN best.val ELSE "HighCard" :
            best \in {max_by_HandType_cmp(
                        [k \in 1..Len(hands) |-> hand_type(hands[k])]) :
                      hands \in {possible_hands(hand)}}} : TRUE

\* CompareType::compare_hands
compare_hands(compare_type, hand_1, hand_2) ==
    LET differing == {i \in 1..Min(Len(hand_1), Len(hand_2)) : hand_1[i] # hand_2[i]}
        first == CHOOSE i \in differing : \A j \in differing : i <= j
    IN  CHOOSE ordering \in
            {IF hand_type_compare # "Equal" THEN hand_type_compare
             ELSE IF differing = {} THEN "Equal"
             ELSE IF compare_type = "Basic"
             THEN Label_cmp(hand_1[first], hand_2[first])
             ELSE joker_cmp(hand_1[first], hand_2[first]) :
                hand_type_compare \in
                    {IF compare_type = "Basic"
                     THEN HandType_cmp(hand_type(hand_1), hand_type(hand_2))
                     ELSE HandType_cmp(best_hand_type(hand_1), best_hand_type(hand_2))}} :
            TRUE

\* HandWithBid::from_string
HandWithBid_from_string(line) ==
    CHOOSE parsed \in
        {IF ~read_hand.result.ok THEN read_hand.result
         ELSE CHOOSE with_bid \in
                {IF ~bid.result.ok THEN bid.result
                 ELSE [ok |-> TRUE,
                       value |-> [hand |-> read_hand.result.value,
                                  bid |-> bid.result.value]] :
                    bid \in {expect_uint(read_whitespace(read_hand.scanner).scanner, "u64")}} :
                TRUE :
            read_hand \in {Hand_from_string_scanner(new(line))}} : TRUE

\* slice::sort_by, a stable sort: every element is put behind the elements
\* before it that are not greater
sort_by_compare_hands(hands, compare_type) ==
    LET sorted[k \in 0..Len(hands)] ==
            IF k = 0 THEN <<>>
            ELSE CHOOSE after \in
                {LET behind == {i \in 0..Len(so_far) :
                        /\ \A j \in 1..i :
                            compare_hands(compare_type, so_far[j].hand, hands[k].hand)
                                # "Greater"
                        /\ i < Len(so_far) =>
                            compare_hands(compare_type, so_far[i + 1].hand, hands[k].hand)
                                = "Greater"}
                     at == CHOOSE i \in behind : \A j \in behind : i <= j
                 IN  SubSeq(so_far, 1, at) \o <<hands[k]>>
                        \o SubSeq(so_far, at + 1, Len(so_far)) :
                    so_far \in {sorted[k - 1]}} : TRUE
    IN  sorted[Len(hands)]

\* HandsWithBids::total_score
total_score(hands, compare_type) ==
    CHOOSE total \in
        {LET sum[i \in 0..Len(other)] ==
                IF i = 0 THEN 0 ELSE sum[i - 1] + i * other[i].bid
         IN  sum[Len(other)] :
            other \in {sort_by_compare_hands(hands, compare_type)}} : TRUE

(***************************************************************************)
(* Day 9: a sequence of numbers and the rows of its differences.           *)
(***************************************************************************)
first(items) ==
    IF items = <<>> THEN [ok |-> FALSE, kind |-> "General"]
    ELSE [ok |-> TRUE, value |-> items[1]]

last(items) ==
    IF items = <<>> THEN [ok |-> FALSE, kind |-> "General"]
    ELSE [ok |-> TRUE, value |-> items[Len(items)]]

deltas(nums) ==
    IF nums = <<>> THEN <<>>
    ELSE [i \in 1..(Len(nums) - 1) |-> nums[i + 1] - nums[i]]

all_zero(nums) == \A i \in 1..Len(nums) : nums[i] = 0

RECURSIVE difference_rows(_)
\* the first loop of expand_once: the rows of differences are pushed to the
\* front until the front row is all zero
difference_rows(sequences) ==
    CHOOSE rows \in
        {IF all_zero(held[1]) THEN held
         ELSE difference_rows(<<deltas(held[1])>> \o held) :
            held \in {sequences}} : TRUE

RECURSIVE unwind_rows(_)
\* the second loop of expand_once: the two front rows are popped and the
\* second comes back with a new first and a new last number
unwind_rows(sequences) ==
    CHOOSE rows \in
        {IF Len(held) <= 1 THEN [ok |-> TRUE, value |-> held]
         ELSE IF ~first(held[2]).ok THEN first(held[2])
         ELSE IF ~first(held[1]).ok THEN first(held[1])
         ELSE unwind_rows(
                << <<first(held[2]).value - first(held[1]).value>>
                     \o held[2]
                     \o <<last(held[2]).value + last(held[1]).value>> >>
                \o SubSeq(held, 3, Len(held))) :
            held \in {sequences}} : TRUE

\* Sequence::expand_once: value is the sequence afterwards (empty after an
\* error, the numbers having been taken out), steps the number of rows of
\* differences that were made
expand_once(nums) ==
    CHOOSE result \in
        {CHOOSE after \in
            {IF ~unwound.ok THEN [ok |-> FALSE, value |-> <<>>, steps |-> Len(rows) - 1]
             ELSE [ok |-> TRUE, value |-> unwound.value[1], steps |-> Len(rows) - 1] :
                unwound \in {unwind_rows(rows)}} : TRUE :
            rows \in {difference_rows(<<nums>>)}} : TRUE

(***************************************************************************)
(* Day 6: a race is [total_time, distance_to_beat].                        *)
(***************************************************************************)
Race_new(total_time, distance_to_beat) ==
    [total_time |-> total_time, distance_to_beat |-> distance_to_beat]

race_distance(total_time, hold_time) ==
    IF hold_time <= total_time
    THEN hold_time * (total_time - hold_time)
    ELSE 0

num_ways_to_win_CountsOneLess(total_time, distance_to_beat) ==
    LET winning == {hold_time \in 0..(total_time - 1) :
                        race_distance(total_time, hold_time) > distance_to_beat}
        hold_time == CHOOSE h \in winning : \A other \in winning : h <= other
    IN  IF winning = {} THEN 0 ELSE total_time - 2 * hold_time

\* num_ways_to_win: the loop returns at the first hold time that wins
num_ways_to_win(total_time, distance_to_beat) ==
    LET winning == {hold_time \in 0..(total_time - 1) :
                        race_distance(total_time, hold_time) > distance_to_beat}
        hold_time == CHOOSE h \in winning : \A other \in winning : h <= other
    IN  IF winning = {} THEN 0 ELSE total_time - 2 * hold_time + 1

\* Races::margin_of_error: Iterator::product
margin_of_error(races) ==
    LET product[k \in 0..Len(races)] ==
            IF k = 0 THEN 1
            ELSE product[k - 1]
                    * num_ways_to_win(races[k].total_time, races[k].distance_to_beat)
    IN  product[Len(races)]

(***************************************************************************)
(* Day 11: a universe is [grid, galaxies], its builder is                  *)
(* [width, height, galaxies]; galaxies are points in the order of reading. *)
(***************************************************************************)
UniverseBuilder_default == [width |-> 0, height |-> 0, galaxies |-> <<>>]

UniverseBuilder_add_line(builder, line) ==
    LET pushed[k \in 0..Len(line)] ==
            IF k = 0 THEN builder.galaxies
            ELSE IF line[k] = 35
                 THEN Append(pushed[k - 1], Point_new(k - 1, builder.height))
                 ELSE pushed[k - 1]
    IN  [width |-> str_len(line),
         height |-> builder.height + 1,
         galaxies |-> pushed[Len(line)]]

UniverseBuilder_build(builder) ==
    [grid |-> Grid_new(builder.width, builder.height),
     galaxies |-> builder.galaxies]

add_column(galaxies, x, delta) ==
    [i \in 1..Len(galaxies) |->
        IF galaxies[i].x >= x
        THEN Point_new(galaxies[i].x + delta, galaxies[i].y)
        ELSE galaxies[i]]

add_row(galaxies, y, delta) ==
    [i \in 1..Len(galaxies) |->
        IF galaxies[i].y >= y
        THEN Point_new(galaxies[i].x, galaxies[i].y + delta)
        ELSE galaxies[i]]

RECURSIVE add_columns(_, _, _)
\* for x in columns.iter().rev(): the largest column first
add_columns(galaxies, columns, delta) ==
    IF columns = {} THEN galaxies
    ELSE LET x == CHOOSE c \in columns : \A d \in columns : d <= c
         IN  add_columns(add_column(galaxies, x, delta), columns \ {x}, delta)

RECURSIVE add_rows(_, _, _)
\* for y in rows.iter().rev(): the largest row first
add_rows(galaxies, rows, delta) ==
    IF rows = {} THEN galaxies
    ELSE LET y == CHOOSE r \in rows : \A d \in rows : d <= r
         IN  add_rows(add_row(galaxies, y, delta), rows \ {y}, delta)

\* Universe::expand; columns and rows are both filtered out of
\* 0..self.grid.width()
Universe_expand(univ, factor) ==
    LET columns == {x \in 0..(univ.grid.width - 1) :
                        \A i \in 1..Len(univ.galaxies) : univ.galaxies[i].x # x}
        rows == {y \in 0..(univ.grid.width - 1) :
                        \A i \in 1..Len(univ.galaxies) : univ.galaxies[i].y # y}
        delta == factor - 1
    IN  IF factor = 0 THEN univ
        ELSE [grid |-> Grid_new((Cardinality(columns) * delta) + univ.grid.width,
                                (Cardinality(rows) * delta) + univ.grid.height),
              galaxies |-> add_rows(add_columns(univ.galaxies, columns, delta),
                                    rows, delta)]

get_shortest_distance(p1, p2) ==
    LET width == IF p1.x > p2.x THEN p1.x - p2.x ELSE p2.x - p1.x
        height == IF p1.y > p2.y THEN p1.y - p2.y ELSE p2.y - p1.y
    IN  width + height

sum_of_shortest_paths(galaxies) ==
    LET n == Len(galaxies)
        \* the inner loop for g1 = galaxies[i]: over galaxies[i + 1..]
        others(i) ==
            LET distance[j \in i..n] ==
                    IF j = i THEN 0
                    ELSE distance[j - 1]
                            + get_shortest_distance(galaxies[i], galaxies[j])
            IN  distance[n]
        total[i \in 0..n] ==
            IF i = 0 THEN 0 ELSE total[i - 1] + others(i)
    IN  total[n]

(***************************************************************************)
(* Day 10: a maze is [start_index, tiles, grid]; tiles holds the tile of   *)
(* index idx at idx + 1; a path is the sequence of its indices.            *)
(***************************************************************************)
Tile_from_char(c) ==
    CASE c = 124 -> [ok |-> TRUE, value |-> "Vertical"]
      [] c = 45 -> [ok |-> TRUE, value |-> "Horizontal"]
      [] c = 76 -> [ok |-> TRUE, value |-> "NorthEast"]
      [] c = 74 -> [ok |-> TRUE, value |-> "NorthWest"]
      [] c = 55 -> [ok |-> TRUE, value |-> "SouthWest"]
      [] c = 70 -> [ok |-> TRUE, value |-> "SouthEast"]
      [] c = 46 -> [ok |-> TRUE, value |-> "Ground"]
      [] c = 83 -> [ok |-> TRUE, value |-> "Start"]
      [] OTHER -> [ok |-> FALSE, kind |-> "General"]

\* tiles.get(idx), Ground where there is none
tile_or_ground(tiles, idx) ==
    IF idx < Len(tiles) THEN tiles[idx + 1] ELSE "Ground"

calculate_start_tile(tiles, start_index, g) ==
    LET toward(direction) ==
            LET n == neighbour(g, start_index, direction)
            IN  IF n.some THEN tile_or_ground(tiles, n.val) ELSE "Ground"
        north_conn == toward("North") \in {"Vertical", "SouthWest", "SouthEast"}
        east_conn == toward("East") \in {"Horizontal", "NorthWest", "SouthWest"}
        south_conn == toward("South") \in {"Vertical", "NorthWest", "NorthEast"}
        west_conn == toward("West") \in {"Horizontal", "NorthEast", "SouthEast"}
        conns == <<north_conn, east_conn, south_conn, west_conn>>
    IN  CASE conns = <<TRUE, TRUE, FALSE, FALSE>> -> [ok |-> TRUE, value |-> "NorthEast"]
          [] conns = <<TRUE, FALSE, TRUE, FALSE>> -> [ok |-> TRUE, value |-> "Vertical"]
          [] conns = <<TRUE, FALSE, FALSE, TRUE>> -> [ok |-> TRUE, value |-> "NorthWest"]
          [] conns = <<FALSE, TRUE, TRUE, FALSE>> -> [ok |-> TRUE, value |-> "SouthEast"]
          [] conns = <<FALSE, TRUE, FALSE, TRUE>> -> [ok |-> TRUE, value |-> "Horizontal"]
          [] conns = <<FALSE, FALSE, TRUE, TRUE>> -> [ok |-> TRUE, value |-> "SouthWest"]
          [] OTHER -> [ok |-> FALSE, kind |-> "General"]

\* MazeBuilder::build on at least one line (self.0[0] is read first)
MazeBuilder_build(lines) ==
    LET g == Grid_new(str_len(lines[1]), Len(lines))
        chars[k \in 0..Len(lines)] ==
            IF k = 0 THEN <<>> ELSE chars[k - 1] \o lines[k]
        all == chars[Len(lines)]
        starts == {i \in 1..Len(all) : all[i] = 83}
        start_index == (CHOOSE i \in starts : \A j \in starts : j <= i) - 1
        tiles == [i \in 1..Len(all) |-> Tile_from_char(all[i]).value]
    IN  IF \E i \in 1..Len(all) : ~Tile_from_char(all[i]).ok
        THEN [ok |-> FALSE, kind |-> "General"]
        ELSE IF starts = {}
        THEN [ok |-> FALSE, kind |-> "General"]
        ELSE CHOOSE built \in
            {IF start_tile.ok
             THEN [ok |-> TRUE,
                   value |-> [start_index |-> start_index,
                              tiles |-> [tiles EXCEPT ![start_index + 1] = start_tile.value],
                              grid |-> g]]
             ELSE start_tile :
                start_tile \in {calculate_start_tile(tiles, start_index, g)}} : TRUE

\* Maze::neighbours
Maze_neighbours(maze, idx) ==
    LET tile == tile_or_ground(maze.tiles, idx)
        directions ==
            CASE tile = "Vertical" -> <<"North", "South">>
              [] tile = "Horizontal" -> <<"East", "West">>
              [] tile = "NorthEast" -> <<"North", "East">>
              [] tile = "NorthWest" -> <<"North", "West">>
              [] tile = "SouthWest" -> <<"South", "West">>
              [] tile = "SouthEast" -> <<"South", "East">>
              [] OTHER -> <<>>
        found[k \in 0..Len(directions)] ==
            IF k = 0 THEN <<>>
            ELSE LET n == neighbour(maze.grid, idx, directions[k])
                 IN  IF n.some THEN Append(found[k - 1], n.val) ELSE found[k - 1]
    IN  found[Len(directions)]

Path_new(start, end) == <<start, end>>

\* Maze::starting_paths: a path to each neighbour of the start that leads
\* back to it, in the order of Grid::neighbours
starting_paths(maze) ==
    LET around == neighbours(maze.grid, maze.start_index)
        paths[k \in 0..Len(around)] ==
            IF k = 0 THEN <<>>
            ELSE IF \E j \in 1..Len(Maze_neighbours(maze, around[k])) :
                        Maze_neighbours(maze, around[k])[j] = maze.start_index
                 THEN Append(paths[k - 1], Path_new(maze.start_index, around[k]))
                 ELSE paths[k - 1]
        found == paths[Len(around)]
    IN  IF Len(found) # 2
        THEN [ok |-> FALSE, kind |-> "General"]
        ELSE [ok |-> TRUE, x |-> found[1], y |-> found[2]]

\* Path::extend: the first neighbour of the last index that is not the one
\* before it
Path_extend(path, maze) ==
    LET second_last == path[Len(path) - 1]
        around == Maze_neighbours(maze, path[Len(path)])
        others == {j \in 1..Len(around) : around[j] # second_last}
    IN  IF others = {}
        THEN [ok |-> FALSE, kind |-> "General"]
        ELSE LET next == around[CHOOSE j \in others : \A k \in others : j <= k]
             IN  [ok |-> TRUE, path |-> Append(path, next), value |-> next]

find_path_KeepsTheMeetingTile(x, y) ==
    LET inner == SubSeq(y, 2, Len(y))
    IN  x \o [i \in 1..Len(inner) |-> inner[Len(inner) + 1 - i]]

\* Maze::find_path on the two converged paths: the first, then the second
\* without its ends, backwards
find_path(x, y) ==
    LET inner == SubSeq(y, 2, Len(y) - 1)
    IN  x \o [i \in 1..Len(inner) |-> inner[Len(inner) + 1 - i]]

\* the tiles of the SolvedMaze: Ground but on the path
solved_tiles(maze, path) ==
    [i \in 1..Len(maze.tiles) |->
        IF \E k \in 1..Len(path) : path[k] = i - 1
        THEN maze.tiles[i] ELSE "Ground"]

max_distance_from_start(path) == Len(path) \div 2

(***************************************************************************)
(* Day 4: a card is [id, winning_numbers, actual_numbers].                 *)
(***************************************************************************)
Card_num_matching_CountsWinningNumbers(card) ==
    Cardinality({k \in 1..Len(card.winning_numbers) :
        \E j \in 1..Len(card.actual_numbers) :
            card.actual_numbers[j] = card.winning_numbers[k]})

\* Card::num_matching: the actual numbers that are among the winning ones
Card_num_matching(card) ==
    Cardinality({k \in 1..Len(card.actual_numbers) :
        \E j \in 1..Len(card.winning_numbers) :
            card.winning_numbers[j] = card.actual_numbers[k]})

RECURSIVE card_numbers(_, _, _, _)
\* the loop of Card::from_string
card_numbers(card_scanner, finished_with_winning, winning_numbers, actual_numbers) ==
    IF is_finished(card_scanner)
    THEN [ok |-> TRUE, winning_numbers |-> winning_numbers,
          actual_numbers |-> actual_numbers]
    ELSE CHOOSE after \in
        {IF peek(at) = Some(124)
         THEN card_numbers(advance(at), TRUE, winning_numbers, actual_numbers)
         ELSE CHOOSE pushed \in
                {IF ~num.result.ok THEN num.result
                 ELSE IF finished_with_winning
                 THEN card_numbers(num.scanner, finished_with_winning,
                        winning_numbers, Append(actual_numbers, num.result.value))
                 ELSE card_numbers(num.scanner, finished_with_winning,
                        Append(winning_numbers, num.result.value), actual_numbers) :
                    num \in {expect_uint(at, "u8")}} : TRUE :
            at \in {read_whitespace(card_scanner).scanner}} : TRUE

\* Card::from_string; the id is a usize, read as the widest type there is
Card_from_string(line) ==
    CHOOSE parsed \in
        {IF ~word.result.ok THEN word.result
         ELSE CHOOSE with_id \in
            {IF ~id.result.ok THEN id.result
             ELSE CHOOSE with_numbers \in
                {IF ~colon.result.ok THEN colon.result
                 ELSE CHOOSE card \in
                    {IF ~numbers.ok THEN numbers
                     ELSE [ok |-> TRUE,
                           value |-> [id |-> id.result.value,
                                      winning_numbers |-> numbers.winning_numbers,
                                      actual_numbers |-> numbers.actual_numbers]] :
                        numbers \in {card_numbers(colon.scanner, FALSE, <<>>, <<>>)}} : TRUE :
                    colon \in {expect_char(id.scanner, 58)}} : TRUE :
                id \in {expect_uint(read_whitespace(word.scanner).scanner, "u64")}} : TRUE :
            word \in {expect_string(new(line), <<67, 97, 114, 100>>)}} : TRUE

(***************************************************************************)
(* Day 8, the solver of part 2: a map builder is                           *)
(* [directions, node_definitions], directions an Option and the            *)
(* definitions a sequence of <<node id, node>>.                            *)
(***************************************************************************)
MapBuilder_default == [directions |-> None, node_definitions |-> <<>>]

Direction_from_char(c) ==
    IF c = 82 THEN [ok |-> TRUE, value |-> "Right"]
    ELSE IF c = 76 THEN [ok |-> TRUE, value |-> "Left"]
    ELSE [ok |-> FALSE, kind |-> "General"]

\* NodeId::from_string_scanner: three characters, whatever they are
NodeId_from_string_scanner(s) ==
    IF s.current_position + 3 > Len(s.chars)
    THEN [scanner |-> [s EXCEPT !.current_position = Len(s.chars)],
          result |-> [ok |-> FALSE, kind |-> "General"]]
    ELSE [scanner |-> advance(advance(advance(s))),
          result |-> [ok |-> TRUE,
                      value |-> SubSeq(s.chars, s.current_position + 1,
                                       s.current_position + 3)]]

RECURSIVE node_definition(_, _, _)
\* the node line of add_line from its k-th read on: the three ids are read
\* with " = (", ", " and ")" after them
node_definition(line_scanner, k, ids) ==
    IF k > 3
    THEN [ok |-> TRUE, value |-> <<ids[1], Node_new(ids[2], ids[3])>>]
    ELSE CHOOSE defined \in
        {IF ~id.result.ok THEN id.result
         ELSE CHOOSE after \in
            {IF ~mark.result.ok THEN mark.result
             ELSE node_definition(mark.scanner, k + 1, Append(ids, id.result.value)) :
                mark \in {expect_string(id.scanner,
                            IF k = 1 THEN <<32, 61, 32, 40>>
                            ELSE IF k = 2 THEN <<44, 32>> ELSE <<41>>)}} : TRUE :
            id \in {NodeId_from_string_scanner(line_scanner)}} : TRUE

\* MapBuilder::add_line: [ok, builder]; the builder is as it was after an
\* error
MapBuilder_add_line(builder, line) ==
    IF ~builder.directions.some
    THEN IF \E i \in 1..Len(line) : ~Direction_from_char(line[i]).ok
         THEN [ok |-> FALSE, kind |-> "General", builder |-> builder]
         ELSE [ok |-> TRUE,
               builder |-> [builder EXCEPT !.directions =
                    Some([i \in 1..Len(line) |-> Direction_from_char(line[i]).value])]]
    ELSE IF line # <<>>
    THEN CHOOSE added \in
        {IF ~definition.ok
         THEN [ok |-> FALSE, kind |-> definition.kind, builder |-> builder]
         ELSE [ok |-> TRUE,
               builder |-> [builder EXCEPT !.node_definitions =
                                Append(@, definition.value)]] :
            definition \in {node_definition(new(line), 1, <<>>)}} : TRUE
    ELSE [ok |-> TRUE, builder |-> builder]

\* MapBuilder::build: the definitions are collected into the HashMap, the
\* last of an id staying; without directions it panics
MapBuilder_build(builder) ==
    IF ~builder.directions.some
    THEN [kind |-> "panicked"]
    ELSE [kind |-> "ok",
          value |-> [directions |-> builder.directions.val,
                     nodes |-> [id \in {builder.node_definitions[k][1] :
                                        k \in 1..Len(builder.node_definitions)} |->
                        LET defining == {k \in 1..Len(builder.node_definitions) :
                                            builder.node_definitions[k][1] = id}
                        IN  builder.node_definitions[
                                CHOOSE k \in defining : \A j \in defining : j <= k][2]]]]

\* Map::start_nodes, as a set: the order of a HashMap's keys is not fixed
start_nodes(map) == {id \in DOMAIN map.nodes : NodeId_ends_with(id, 65)}

RECURSIVE walk_from(_, _, _, _, _)
\* the loop of calculate_distance from a node with num_steps steps made: it
\* panics without a direction or on a node without a definition, returns
\* the count at the first node that satisfies end, and is never left when
\* as many turns as there are pairs of a node and a place in the directions
\* have met none
walk_from(map, node_id, index, steps, end) ==
    IF map.directions = <<>> \/ node_id \notin DOMAIN map.nodes
    THEN [kind |-> "panicked"]
    ELSE IF steps >= Cardinality(DOMAIN map.nodes) * Len(map.directions)
    THEN [kind |-> "loops"]
    ELSE CHOOSE walked \in
        {IF end_holds(end, next_id)
         THEN [kind |-> "ok", value |-> steps + 1]
         ELSE walk_from(map, next_id, (index + 1) % Len(map.directions),
                        steps + 1, end) :
            next_id \in {next_node_id(map.nodes[node_id],
                                      map.directions[index + 1])}} : TRUE

\* Map::calculate_distance
calculate_distance(map, start, end) == walk_from(map, start, 0, 0, end)

RECURSIVE gcd(_, _)
gcd(a, b) == IF b = 0 THEN a ELSE gcd(b, a % b)

\* num::integer::lcm
integer_lcm(a, b) == IF a = 0 /\ b = 0 THEN 0 ELSE a * (b \div gcd(a, b))

\* maths::lcm
lcm(nums) ==
    LET result[k \in 1..Len(nums)] ==
            IF k = 1 THEN nums[1] ELSE integer_lcm(result[k - 1], nums[k])
    IN  IF nums = <<>> THEN None ELSE Some(result[Len(nums)])

\* Part2::extract_solution with the start nodes in the given order
Part2_extract_solution(builder, order) ==
    CHOOSE returned \in
        {IF built.kind # "ok" THEN built
         ELSE CHOOSE solved \in
            {IF \E k \in 1..Len(nums) : nums[k].kind = "panicked"
             THEN [kind |-> "panicked"]
             ELSE IF \E k \in 1..Len(nums) : nums[k].kind = "loops"
             THEN [kind |-> "loops"]
             ELSE CHOOSE answer \in
                {[kind |-> "ok",
                  value |-> IF total.some THEN to_string(total.val) ELSE <<>>] :
                    total \in {lcm([k \in 1..Len(nums) |-> nums[k].value])}} : TRUE :
                nums \in {[k \in 1..Len(order) |->
                            calculate_distance(built.value, order[k], "ends_with_z")]}} :
                TRUE :
            built \in {MapBuilder_build(builder)}} : TRUE

(***************************************************************************)
(* Day 2: a game is [id, cube_sets], a cube set [num_red, num_green,       *)
(* num_blue], each a u16.                                                  *)
(***************************************************************************)
CubeSet_new(num_red, num_green, num_blue) ==
    [num_red |-> num_red, num_green |-> num_green, num_blue |-> num_blue]

\* the if / else if chain over the colour names; an unknown name changes
\* nothing
cube_colour(at, cube_set, num) ==
    IF match_string(at, <<114, 101, 100>>).result
    THEN [scanner |-> match_string(at, <<114, 101, 100>>).scanner,
          cube_set |-> [cube_set EXCEPT !.num_red = num]]
    ELSE IF match_string(at, <<103, 114, 101, 101, 110>>).result
    THEN [scanner |-> match_string(at, <<103, 114, 101, 101, 110>>).scanner,
          cube_set |-> [cube_set EXCEPT !.num_green = num]]
    ELSE IF match_string(at, <<98, 108, 117, 101>>).result
    THEN [scanner |-> match_string(at, <<98, 108, 117, 101>>).scanner,
          cube_set |-> [cube_set EXCEPT !.num_blue = num]]
    ELSE [scanner |-> at, cube_set |-> cube_set]

RECURSIVE cube_set_entries(_, _)
\* the loop of CubeSet::from_scanner
cube_set_entries(set_scanner, cube_set) ==
    IF is_finished(set_scanner) \/ peek(set_scanner) = Some(59)
    THEN [ok |-> TRUE, scanner |-> set_scanner, value |-> cube_set]
    ELSE CHOOSE entry \in
        {IF ~num.result.ok THEN num.result
         ELSE CHOOSE named \in
            {IF ~space.result.ok THEN space.result
             ELSE CHOOSE after \in
                {CHOOSE next \in
                    {IF comma.result
                     THEN CHOOSE more \in
                        {IF ~gap.result.ok THEN gap.result
                         ELSE cube_set_entries(gap.scanner, coloured.cube_set) :
                            gap \in {expect_char(comma.scanner, 32)}} : TRUE
                     ELSE [ok |-> TRUE, scanner |-> comma.scanner,
                           value |-> coloured.cube_set] :
                        comma \in {match_char(coloured.scanner, 44)}} : TRUE :
                    coloured \in {cube_colour(space.scanner, cube_set,
                                              num.result.value)}} : TRUE :
                space \in {expect_char(num.scanner, 32)}} : TRUE :
            num \in {expect_uint(set_scanner, "u16")}} : TRUE

CubeSet_from_scanner(set_scanner) ==
    cube_set_entries(set_scanner, CubeSet_new(0, 0, 0))

RECURSIVE game_cube_sets(_, _)
\* the loop of Game::from_scanner
game_cube_sets(game_scanner, cube_sets) ==
    IF is_finished(game_scanner)
    THEN [ok |-> TRUE, scanner |-> game_scanner, value |-> cube_sets]
    ELSE CHOOSE pushed \in
        {IF ~cube_set.ok THEN cube_set
         ELSE CHOOSE next \in
            {IF semicolon.result
             THEN CHOOSE more \in
                {IF ~gap.result.ok THEN gap.result
                 ELSE game_cube_sets(gap.scanner,
                                     Append(cube_sets, cube_set.value)) :
                    gap \in {expect_char(semicolon.scanner, 32)}} : TRUE
             ELSE [ok |-> TRUE, scanner |-> semicolon.scanner,
                   value |-> Append(cube_sets, cube_set.value)] :
                semicolon \in {match_char(cube_set.scanner, 59)}} : TRUE :
            cube_set \in {CubeSet_from_scanner(game_scanner)}} : TRUE

Game_from_scanner(game_scanner) ==
    CHOOSE game \in
        {IF ~word.result.ok THEN word.result
         ELSE CHOOSE with_id \in
            {IF ~id.result.ok THEN id.result
             ELSE CHOOSE with_sets \in
                {IF ~colon.result.ok THEN colon.result
                 ELSE CHOOSE built \in
                    {IF ~cube_sets.ok THEN cube_sets
                     ELSE [ok |-> TRUE,
                           value |-> [id |-> id.result.value,
                                      cube_sets |-> cube_sets.value]] :
                        cube_sets \in {game_cube_sets(colon.scanner, <<>>)}} : TRUE :
                    colon \in {expect_string(id.scanner, <<58, 32>>)}} : TRUE :
                id \in {expect_uint(word.scanner, "u16")}} : TRUE :
            word \in {expect_string(game_scanner, <<71, 97, 109, 101, 32>>)}} : TRUE

\* Game::minimal_cube_set: the for loop over the cube sets
minimal_cube_set(game) ==
    LET final_cube_set[k \in 0..Len(game.cube_sets)] ==
            IF k = 0 THEN CubeSet_new(0, 0, 0)
            ELSE CHOOSE next \in
                {CubeSet_new(
                    IF cube_set.num_red > final.num_red
                    THEN cube_set.num_red ELSE final.num_red,
                    IF cube_set.num_green > final.num_green
                    THEN cube_set.num_green ELSE final.num_green,
                    IF cube_set.num_blue > final.num_blue
                    THEN cube_set.num_blue ELSE final.num_blue) :
                    cube_set \in {game.cube_sets[k]},
                    final \in {final_cube_set[k - 1]}} : TRUE
    IN  final_cube_set[Len(game.cube_sets)]

\* a * b on u16: a product above u16::MAX panics in a build with overflow
\* checks and wraps in a build without them
mul_u16(a, b, checks) ==
    IF a * b <= uint_max("u16") THEN [kind |-> "ok", value |-> a * b]
    ELSE IF checks THEN [kind |-> "panicked"]
    ELSE [kind |-> "ok", value |-> (a * b) % (uint_max("u16") + 1)]

\* CubeSet::power: num_red * num_green * num_blue, from the left, on u16
CubeSet_power(cube_set, checks) ==
    CHOOSE power \in
        {IF red_green.kind = "panicked" THEN red_green
         ELSE mul_u16(red_green.value, cube_set.num_blue, checks) :
            red_green \in {mul_u16(cube_set.num_red, cube_set.num_green, checks)}} : TRUE

\* Part2::handle_line of day 2 on the running sum: the new sum and the result
Cubes_handle_line(running_sum, line, checks) ==
    CHOOSE outcome \in
        {IF ~game.ok THEN [sum |-> running_sum, result |-> [kind |-> "err"]]
         ELSE CHOOSE added \in
            {IF power.kind = "panicked"
             THEN [sum |-> running_sum, result |-> [kind |-> "panicked"]]
             ELSE [sum |-> running_sum + power.value, result |-> [kind |-> "ok"]] :
                power \in {CubeSet_power(minimal_cube_set(game.value), checks)}} : TRUE :
            game \in {Game_from_scanner(new(line))}} : TRUE

(***************************************************************************)
(* The state of a scanner run: the scanner, whether the build checks       *)
(* integer overflow, whether the process has panicked, and the last call   *)
(* (its name, argument, the cursor before it and what it returned).        *)
(***************************************************************************)
VARIABLES scanner, overflow_checks, panicked, op, arg, before, ret

scannerVars == <<scanner, overflow_checks, panicked, op, arg, before, ret>>

\* The state of a grid session: the grid and the last call on it.
VARIABLES grid, gop, garg, gret

gridVars == <<grid, gop, garg, gret>>

\* The state of a harness run: the input file (whether it opens, what reading
\* and handling each line does, whether extraction succeeds), where main is,
\* the next line of the file, the lines handed to handle_line so far, the
\* calls of extract_solution, the solutions printed and main's result.
VARIABLES file, hpc, next_line, handled, extract_calls, printed, exit

harnessVars == <<file, hpc, next_line, handled, extract_calls, printed, exit>>

\* The state of an almanac: its value maps, whether a line has panicked, and
\* the last call of map_value or calculate_location.
VARIABLES seed_behaviour, seeds, value_maps, almanac_panicked, almanac_op,
          almanac_arg, almanac_ret

almanacVars ==
    <<seed_behaviour, seeds, value_maps, almanac_panicked, almanac_op,
      almanac_arg, almanac_ret>>

\* The state of extract_number on one line: whether words count, the
\* iterator's scanner, the digits it has yielded, first_digit and last_digit,
\* and the returned number (None until the loop has ended).
VARIABLES include_words, digit_scanner, all_digits, first_digit, last_digit, number

digitsVars ==
    <<include_words, digit_scanner, all_digits, first_digit, last_digit, number>>

\* The state of the day 3 part 2 solver: the lines it was given, and the
\* last call on the schematic built from them with its argument and result.
VARIABLES schematic_lines, schematic_op, schematic_arg, schematic_ret

schematicVars == <<schematic_lines, schematic_op, schematic_arg, schematic_ret>>

\* The state of one call of Map::calculate_distance: the map, the arguments,
\* the loop's variables (the cycling iterator is the index of the direction
\* it yields next) and where the call is: "loop", "returned" or "panicked".
VARIABLES walk_map, start_id, walk_end, directions_index, current_node_id,
          num_steps, walk_pc

walkVars ==
    <<walk_map, start_id, walk_end, directions_index, current_node_id,
      num_steps, walk_pc>>

\* The state of a hand: the hand, and the last call on it with its result.
VARIABLES hand, hand_op, hand_ret

handVars == <<hand, hand_op, hand_ret>>

\* The state of the day 7 solver: the hands with their bids and the way
\* to compare them, and the last call with its result.
VARIABLES hands_with_bids, compare_type, bids_op, bids_ret

bidsVars == <<hands_with_bids, compare_type, bids_op, bids_ret>>

\* The state of a Sequence: the numbers it was made of, the numbers it
\* holds, and the last call with its result.
VARIABLES sequence_nums, sequence, sequence_op, sequence_ret

sequenceVars == <<sequence_nums, sequence, sequence_op, sequence_ret>>

\* The state of Races: the races, and the last call with its argument and
\* result.
VARIABLES races, races_op, races_arg, races_ret

racesVars == <<races, races_op, races_arg, races_ret>>

\* The state of the day 11 solver: the lines it was given and the builder
\* they made, the universe of the last call, and the last call with its
\* factor and its result.
VARIABLES universe_lines, universe_builder, universe, universe_op,
          universe_arg, universe_ret

universeVars ==
    <<universe_lines, universe_builder, universe, universe_op,
      universe_arg, universe_ret>>

\* The state of the day 10 solver in extract_solution: the lines, the maze
\* built of them (a result), the two paths of extend_paths_to_convergence,
\* where the call is ("panicked", "failed", "built", "loop", "solved",
\* "returned"), the solved maze's tiles and path, and the returned distance.
VARIABLES maze_lines, maze, path_x, path_y, maze_pc, solved_maze, maze_ret

mazeVars == <<maze_lines, maze, path_x, path_y, maze_pc, solved_maze, maze_ret>>

\* The state of the day 4 part 2 solver: its cards, the result of the last
\* handle_line, and the variables of expanded_number (the queue, the id
\* taken from it last, the count) with where the call is: "idle", "loop",
\* "returned" or "panicked".
VARIABLES cards, card_ret, queue, queue_id, count, cards_pc

cardsVars == <<cards, card_ret, queue, queue_id, count, cards_pc>>

\* The state of the day 8 part 2 solver: its map builder, the number of
\* lines it was given, and the last call with its result (for
\* extract_solution "ok" with the string, "panicked", or "loops" when a walk
\* is never left).
VARIABLES map_builder, lines_added, part2_op, part2_ret

part2Vars == <<map_builder, lines_added, part2_op, part2_ret>>

\* The state of the day 2 part 2 solver: its running sum, whether the build
\* checks arithmetic overflow, the number of lines handled, and the last
\* call with its argument and result.
VARIABLES cube_sum, cubes_overflow_checks, games_handled, cubes_op, cubes_arg, cubes_ret

cubesVars == <<cube_sum, cubes_overflow_checks, games_handled, cubes_op, cubes_arg, cubes_ret>>

vars == <<scannerVars, gridVars, harnessVars, almanacVars, digitsVars, schematicVars, walkVars, handVars, bidsVars, sequenceVars, racesVars, universeVars, mazeVars, cardsVars, part2Vars, cubesVars>>

\* what each component leaves alone
nonScannerVars ==
    <<gridVars, harnessVars, almanacVars, digitsVars,
      schematicVars, walkVars, handVars, bidsVars, sequenceVars,
      racesVars, universeVars, mazeVars, cardsVars, part2Vars,
      cubesVars>>

nonGridVars ==
    <<scannerVars, harnessVars, almanacVars, digitsVars,
      schematicVars, walkVars, handVars, bidsVars, sequenceVars,
      racesVars, universeVars, mazeVars, cardsVars, part2Vars,
      cubesVars>>

nonHarnessVars ==
    <<scannerVars, gridVars, almanacVars, digitsVars,
      schematicVars, walkVars, handVars, bidsVars, sequenceVars,
      racesVars, universeVars, mazeVars, cardsVars, part2Vars,
      cubesVars>>

nonAlmanacVars ==
    <<scannerVars, gridVars, harnessVars, digitsVars,
      schematicVars, walkVars, handVars, bidsVars, sequenceVars,
      racesVars, universeVars, mazeVars, cardsVars, part2Vars,
      cubesVars>>

nonDigitsVars ==
    <<scannerVars, gridVars, harnessVars, almanacVars,
      schematicVars, walkVars, handVars, bidsVars, sequenceVars,
      racesVars, universeVars, mazeVars, cardsVars, part2Vars,
      cubesVars>>

nonSchematicVars ==
    <<scannerVars, gridVars, harnessVars, almanacVars, digitsVars,
      walkVars, handVars, bidsVars, sequenceVars, racesVars,
      universeVars, mazeVars, cardsVars, part2Vars, cubesVars>>

nonWalkVars ==
    <<scannerVars, gridVars, harnessVars, almanacVars, digitsVars,
      schematicVars, handVars, bidsVars, sequenceVars, racesVars,
      universeVars, mazeVars, cardsVars, part2Vars, cubesVars>>

nonHandVars ==
    <<scannerVars, gridVars, harnessVars, almanacVars, digitsVars,
      schematicVars, walkVars, bidsVars, sequenceVars, racesVars,
      universeVars, mazeVars, cardsVars, part2Vars, cubesVars>>

nonBidsVars ==
    <<scannerVars, gridVars, harnessVars, almanacVars, digitsVars,
      schematicVars, walkVars, handVars, sequenceVars, racesVars,
      universeVars, mazeVars, cardsVars, part2Vars, cubesVars>>

nonSequenceVars ==
    <<scannerVars, gridVars, harnessVars, almanacVars, digitsVars,
      schematicVars, walkVars, handVars, bidsVars, racesVars,
      universeVars, mazeVars, cardsVars, part2Vars, cubesVars>>

nonRacesVars ==
    <<scannerVars, gridVars, harnessVars, almanacVars, digitsVars,
      schematicVars, walkVars, handVars, bidsVars, sequenceVars,
      universeVars, mazeVars, cardsVars, part2Vars, cubesVars>>

nonUniverseVars ==
    <<scannerVars, gridVars, harnessVars, almanacVars, digitsVars,
      schematicVars, walkVars, handVars, bidsVars, sequenceVars,
      racesVars, mazeVars, cardsVars, part2Vars, cubesVars>>

nonMazeVars ==
    <<scannerVars, gridVars, harnessVars, almanacVars, digitsVars,
      schematicVars, walkVars, handVars, bidsVars, sequenceVars,
      racesVars, universeVars, cardsVars, part2Vars, cubesVars>>

nonCardsVars ==
    <<scannerVars, gridVars, harnessVars, almanacVars, digitsVars,
      schematicVars, walkVars, handVars, bidsVars, sequenceVars,
      racesVars, universeVars, mazeVars, part2Vars, cubesVars>>

nonPart2Vars ==
    <<scannerVars, gridVars, harnessVars, almanacVars, digitsVars,
      schematicVars, walkVars, handVars, bidsVars, sequenceVars,
      racesVars, universeVars, mazeVars, cardsVars, cubesVars>>

nonCubesVars ==
    <<scannerVars, gridVars, harnessVars, almanacVars, digitsVars,
      schematicVars, walkVars, handVars, bidsVars, sequenceVars,
      racesVars, universeVars, mazeVars, cardsVars, part2Vars>>

ScannerIdle ==
    /\ scanner = new(<<>>)
    /\ overflow_checks = FALSE
    /\ panicked = FALSE
    /\ op = "new"
    /\ arg = <<>>
    /\ before = 0
    /\ ret = <<>>

GridIdle ==
    /\ grid = Grid_new(1, 1)
    /\ gop = "new"
    /\ garg = <<>>
    /\ gret = <<>>

HarnessIdle ==
    /\ file = [open_ok |-> TRUE, lines |-> <<>>, extract_ok |-> TRUE]
    /\ hpc = "read_lines"
    /\ next_line = 1
    /\ handled = <<>>
    /\ extract_calls = 0
    /\ printed = 0
    /\ exit = "running"

AlmanacIdle ==
    /\ seed_behaviour = "Simple"
    /\ seeds = <<>>
    /\ value_maps = <<>>
    /\ almanac_panicked = FALSE
    /\ almanac_op = "new"
    /\ almanac_arg = <<>>
    /\ almanac_ret = <<>>

DigitsIdle ==
    /\ include_words = FALSE
    /\ digit_scanner = new(<<>>)
    /\ all_digits = <<>>
    /\ first_digit = None
    /\ last_digit = 0
    /\ number = None

SchematicIdle ==
    /\ schematic_lines = <<>>
    /\ schematic_op = "new"
    /\ schematic_arg = <<>>
    /\ schematic_ret = <<>>

WalkIdle ==
    /\ walk_map = [directions |-> <<>>, nodes |-> <<>>]
    /\ start_id = <<>>
    /\ walk_end = "is_zzz"
    /\ directions_index = 0
    /\ current_node_id = <<>>
    /\ num_steps = 0
    /\ walk_pc = "returned"

HandIdle ==
    /\ hand = <<>>
    /\ hand_op = "new"
    /\ hand_ret = <<>>

BidsIdle ==
    /\ hands_with_bids = <<>>
    /\ compare_type = "Basic"
    /\ bids_op = "new"
    /\ bids_ret = <<>>

SequenceIdle ==
    /\ sequence_nums = <<>>
    /\ sequence = <<>>
    /\ sequence_op = "new"
    /\ sequence_ret = <<>>

RacesIdle ==
    /\ races = <<>>
    /\ races_op = "new"
    /\ races_arg = <<>>
    /\ races_ret = 0

UniverseIdle ==
    /\ universe_lines = <<>>
    /\ universe_builder = UniverseBuilder_default
    /\ universe = UniverseBuilder_build(UniverseBuilder_default)
    /\ universe_op = "new"
    /\ universe_arg = 0
    /\ universe_ret = 0

MazeIdle ==
    /\ maze_lines = <<>>
    /\ maze = [ok |-> FALSE, kind |-> "General"]
    /\ path_x = <<>>
    /\ path_y = <<>>
    /\ maze_pc = "panicked"
    /\ solved_maze = [tiles |-> <<>>, path |-> <<>>]
    /\ maze_ret = 0

CardsIdle ==
    /\ cards = <<>>
    /\ card_ret = [ok |-> TRUE]
    /\ queue = <<>>
    /\ queue_id = 0
    /\ count = 0
    /\ cards_pc = "idle"

Part2Idle ==
    /\ map_builder = MapBuilder_default
    /\ lines_added = 0
    /\ part2_op = "new"
    /\ part2_ret = [kind |-> "ok"]

CubesIdle ==
    /\ cube_sum = 0
    /\ cubes_overflow_checks = TRUE
    /\ games_handled = 0
    /\ cubes_op = "new"
    /\ cubes_arg = <<>>
    /\ cubes_ret = [kind |-> "ok"]

\* every component but the one a specification runs stays as constructed
OthersIdle(component) ==
    /\ IF component = "scanner" THEN TRUE ELSE ScannerIdle
    /\ IF component = "grid" THEN TRUE ELSE GridIdle
    /\ IF component = "harness" THEN TRUE ELSE HarnessIdle
    /\ IF component = "almanac" THEN TRUE ELSE AlmanacIdle
    /\ IF component = "digits" THEN TRUE ELSE DigitsIdle
    /\ IF component = "schematic" THEN TRUE ELSE SchematicIdle
    /\ IF component = "walk" THEN TRUE ELSE WalkIdle
    /\ IF component = "hand" THEN TRUE ELSE HandIdle
    /\ IF component = "bids" THEN TRUE ELSE BidsIdle
    /\ IF component = "sequence" THEN TRUE ELSE SequenceIdle
    /\ IF component = "races" THEN TRUE ELSE RacesIdle
    /\ IF component = "universe" THEN TRUE ELSE UniverseIdle
    /\ IF component = "maze" THEN TRUE ELSE MazeIdle
    /\ IF component = "cards" THEN TRUE ELSE CardsIdle
    /\ IF component = "part2" THEN TRUE ELSE Part2Idle
    /\ IF component = "cubes" THEN TRUE ELSE CubesIdle

\* the literals a caller passes: short strings and the text at the cursor
Texts(s) ==
    SeqUpTo(TextAlphabet, MaxText)
        \cup {SubSeq(s.chars, s.current_position + 1,
                     Min(s.current_position + k, Len(s.chars))) : k \in 0..MaxText}

\* the counts a caller passes: small ones and the largest of the word
Counts == {0, 1, 2, MaxLen + 1, UsizeMax - 1, UsizeMax}

ScannerInit ==
    /\ scanner \in {new(source) : source \in Sources}
    /\ overflow_checks \in BOOLEAN
    /\ panicked = FALSE
    /\ op = "new"
    /\ arg = <<>>
    /\ before = 0
    /\ ret = <<>>

Called(name, a, s, r) ==
    /\ ~panicked
    /\ op' = name
    /\ arg' = a
    /\ before' = scanner.current_position
    /\ scanner' = s
    /\ ret' = r
    /\ UNCHANGED <<overflow_checks, panicked, nonScannerVars>>

Advance == Called("advance", <<>>, advance(scanner), <<>>)

AdvanceBy ==
    \E n \in Counts :
        IF advance_by_overflows(scanner, n) /\ overflow_checks
        THEN /\ ~panicked
             /\ panicked' = TRUE
             /\ op' = "advance_by"
             /\ arg' = n
             /\ before' = scanner.current_position
             /\ UNCHANGED <<scanner, overflow_checks, ret, nonScannerVars>>
        ELSE Called("advance_by", n, advance_by(scanner, n), <<>>)

MatchChar ==
    \E c \in Alphabet :
        LET m == match_char(scanner, c)
        IN  Called("match_char", c, m.scanner, m.result)

MatchString ==
    \E other \in Texts(scanner) :
        LET m == match_string(scanner, other)
        IN  Called("match_string", other, m.scanner, m.result)

ReadWhitespace ==
    LET r == read_whitespace(scanner)
    IN  Called("read_whitespace", <<>>, r.scanner, r.result)

ExpectUint ==
    \E T \in UintTypes :
        LET r == expect_uint(scanner, T)
        IN  Called("expect_uint", T, r.scanner, r.result)

ExpectChar ==
    \E c \in Alphabet :
        LET r == expect_char(scanner, c)
        IN  Called("expect_char", c, r.scanner, r.result)

ExpectString ==
    \E other \in Texts(scanner) :
        LET r == expect_string(scanner, other)
        IN  Called("expect_string", other, r.scanner, r.result)

ScannerNext ==
    \/ Advance
    \/ AdvanceBy
    \/ MatchChar
    \/ MatchString
    \/ ReadWhitespace
    \/ ExpectUint
    \/ ExpectChar
    \/ ExpectString

ScannerSpecInit == ScannerInit /\ OthersIdle("scanner")

ScannerSpec == ScannerSpecInit /\ [][ScannerNext]_vars

(***************************************************************************)
(* A grid session: any of the pure grid functions is called on a grid of   *)
(* at least one column and one row, with an index or a point of the grid.  *)
(***************************************************************************)
Grids == {Grid_new(w, h) : w \in 1..MaxWidth, h \in 1..MaxHeight}

Points(g) == {Point_new(x, y) : x \in 0..(g.width - 1), y \in 0..(g.height - 1)}

Directions == {Direction_all[k] : k \in 1..Len(Direction_all)}

GridInit ==
    /\ grid \in Grids
    /\ gop = "new"
    /\ garg = <<>>
    /\ gret = <<>>

GridCalled(name, a, r) ==
    /\ gop' = name
    /\ garg' = a
    /\ gret' = r
    /\ UNCHANGED <<grid, nonGridVars>>

ToPoint == \E idx \in indices(grid) : GridCalled("to_point", idx, to_point(grid, idx))

ToIndex == \E point \in Points(grid) : GridCalled("to_index", point, to_index(grid, point))

Neighbour ==
    \E idx \in indices(grid), direction \in Directions :
        GridCalled("neighbour", [idx |-> idx, direction |-> direction],
                   neighbour(grid, idx, direction))

Neighbours == \E idx \in indices(grid) : GridCalled("neighbours", idx, neighbours(grid, idx))

GridNext == ToPoint \/ ToIndex \/ Neighbour \/ Neighbours

GridSpecInit == GridInit /\ OthersIdle("grid")

GridSpec == GridSpecInit /\ [][GridNext]_vars

(***************************************************************************)
(* main: open the input, hand every line to the solver, extract, print.    *)
(* Every ? returns from main with the error.                               *)
(***************************************************************************)
LineOutcomes == {"ok", "read_err", "handle_err"}

Files ==
    [open_ok : BOOLEAN, lines : SeqUpTo(LineOutcomes, MaxLines), extract_ok : BOOLEAN]

HarnessInit ==
    /\ file \in Files
    /\ hpc = "read_lines"
    /\ next_line = 1
    /\ handled = <<>>
    /\ extract_calls = 0
    /\ printed = 0
    /\ exit = "running"

Return(result) ==
    /\ hpc' = "returned"
    /\ exit' = result

\* let lines = read_lines(&filename)?;
ReadLines ==
    /\ hpc = "read_lines"
    /\ IF file.open_ok
       THEN hpc' = "for_line" /\ UNCHANGED exit
       ELSE Return("Err(Io)")
    /\ UNCHANGED <<file, next_line, handled, extract_calls, printed>>
    /\ UNCHANGED nonHarnessVars

ForLine_IgnoresHandleError ==
    /\ hpc = "for_line"
    /\ IF next_line > Len(file.lines)
       THEN /\ hpc' = "extract_solution"
            /\ UNCHANGED <<next_line, handled, exit>>
       ELSE IF file.lines[next_line] = "read_err"
       THEN /\ Return("Err(Io)")
            /\ UNCHANGED <<next_line, handled>>
       ELSE /\ handled' = Append(handled, next_line)
            /\ next_line' = next_line + 1
            /\ UNCHANGED <<hpc, exit>>
    /\ UNCHANGED <<file, extract_calls, printed>>
    /\ UNCHANGED nonHarnessVars

\* for line in lines { solver.handle_line(&line?)?; }
ForLine ==
    /\ hpc = "for_line"
    /\ IF next_line > Len(file.lines)
       THEN /\ hpc' = "extract_solution"
            /\ UNCHANGED <<next_line, handled, exit>>
       ELSE IF file.lines[next_line] = "read_err"
       THEN /\ Return("Err(Io)")
            /\ UNCHANGED <<next_line, handled>>
       ELSE /\ handled' = Append(handled, next_line)
            /\ IF file.lines[next_line] = "handle_err"
               THEN Return("Err(handle_line)") /\ UNCHANGED next_line
               ELSE next_line' = next_line + 1 /\ UNCHANGED <<hpc, exit>>
    /\ UNCHANGED <<file, extract_calls, printed>>
    /\ UNCHANGED nonHarnessVars

\* let solution = solver.extract_solution()?;
ExtractSolution ==
    /\ hpc = "extract_solution"
    /\ extract_calls' = extract_calls + 1
    /\ IF file.extract_ok
       THEN hpc' = "println" /\ UNCHANGED exit
       ELSE Return("Err(extract_solution)")
    /\ UNCHANGED <<file, next_line, handled, printed>>
    /\ UNCHANGED nonHarnessVars

\* println!("{}", solution); Ok(())
Println ==
    /\ hpc = "println"
    /\ printed' = printed + 1
    /\ Return("Ok")
    /\ UNCHANGED <<file, next_line, handled, extract_calls>>
    /\ UNCHANGED nonHarnessVars

HarnessNext == ReadLines \/ ForLine \/ ExtractSolution \/ Println

HarnessSpecInit == HarnessInit /\ OthersIdle("harness")

HarnessSpec == HarnessSpecInit /\ [][HarnessNext]_vars

(***************************************************************************)
(* An almanac: "... map:" lines and range lines build the value maps, and  *)
(* values are mapped through one map or through all of them.               *)
(***************************************************************************)
\* overlapping ranges, an empty range and a range that maps onto another
RangeLines ==
    { ValueMapRange_new(5, 0, 2), ValueMapRange_new(0, 1, 2),
      ValueMapRange_new(3, 1, 0), ValueMapRange_new(1, 5, 1) }

\* the value map of value_is_mapped_correctly
TestValueMap == <<ValueMapRange_new(50, 98, 2), ValueMapRange_new(52, 50, 48)>>

Values == 0..MaxValue \cup {49, 50, 51, 97, 98, 99, 100}

RECURSIVE CountRanges(_)
CountRanges(maps) ==
    IF maps = <<>> THEN 0 ELSE Len(Head(maps)) + CountRanges(Tail(maps))

AlmanacInit ==
    /\ seed_behaviour \in {"Simple", "Range"}
    /\ seeds = <<>>
    /\ value_maps \in {<<>>, <<TestValueMap>>, <<<<TestValueMap[1]>>>>}
    /\ almanac_panicked = FALSE
    /\ almanac_op = "new"
    /\ almanac_arg = <<>>
    /\ almanac_ret = <<>>

\* handle_line on a line that ends with "map:"
MapHeaderLine ==
    /\ ~almanac_panicked
    /\ Len(value_maps) < MaxMaps
    /\ value_maps' = Append(value_maps, <<>>)
    /\ almanac_op' = "handle_line"
    /\ almanac_arg' = "map:"
    /\ almanac_ret' = <<>>
    /\ UNCHANGED <<seed_behaviour, seeds, almanac_panicked, nonAlmanacVars>>

\* handle_line on a line of three numbers: last_mut().unwrap() panics when
\* no map has been started
RangeLine ==
    \E range \in RangeLines :
        /\ ~almanac_panicked
        /\ CountRanges(value_maps) < MaxRanges
        /\ almanac_op' = "handle_line"
        /\ almanac_arg' = range
        /\ almanac_ret' = <<>>
        /\ IF value_maps = <<>>
           THEN almanac_panicked' = TRUE /\ UNCHANGED value_maps
           ELSE /\ value_maps' =
                    [value_maps EXCEPT ![Len(value_maps)] = Append(@, range)]
                /\ UNCHANGED almanac_panicked
        /\ UNCHANGED <<seed_behaviour, seeds, nonAlmanacVars>>

\* the values of the "seeds: " lines: one value, a pair, three and four values
SeedLines == {<<1>>, <<0, 2>>, <<1, 2, 0>>, <<3, 1, 0, 2>>}

\* handle_line on a line that starts with "seeds: "
SeedsLine ==
    \E given \in SeedLines :
        /\ ~almanac_panicked
        /\ almanac_op' = "handle_line"
        /\ almanac_arg' = given
        /\ almanac_ret' = <<>>
        /\ \E expanded \in {SeedBehaviour_expand(seed_behaviour, given)} :
            IF expanded.kind = "panicked"
            THEN almanac_panicked' = TRUE /\ UNCHANGED seeds
            ELSE seeds' = expanded.value /\ UNCHANGED almanac_panicked
        /\ UNCHANGED <<seed_behaviour, value_maps, nonAlmanacVars>>

MapValue ==
    \E k \in 1..Len(value_maps), value \in Values :
        /\ ~almanac_panicked
        /\ almanac_op' = "map_value"
        /\ almanac_arg' = [map |-> value_maps[k], value |-> value]
        /\ almanac_ret' = ValueMap_map_value(value_maps[k], value)
        /\ UNCHANGED <<seed_behaviour, seeds, value_maps, almanac_panicked,
                       nonAlmanacVars>>

CalculateLocation ==
    \E value \in Values :
        /\ ~almanac_panicked
        /\ almanac_op' = "calculate_location"
        /\ almanac_arg' = value
        /\ almanac_ret' = calculate_location(value_maps, value)
        /\ UNCHANGED <<seed_behaviour, seeds, value_maps, almanac_panicked,
                       nonAlmanacVars>>

AlmanacNext == MapHeaderLine \/ RangeLine \/ MapValue \/ CalculateLocation

AlmanacSpecInit == AlmanacInit /\ OthersIdle("almanac")

AlmanacSpec == AlmanacSpecInit /\ [][AlmanacNext]_vars

\* the lines of an almanac alone: every kind of line handle_line takes
AlmanacLinesNext == SeedsLine \/ MapHeaderLine \/ RangeLine

AlmanacLinesSpec == AlmanacSpecInit /\ [][AlmanacLinesNext]_vars

(***************************************************************************)
(* extract_number on one line: the loop takes the iterator's digits one by *)
(* one and returns first * 10 + last when the iterator ends.               *)
(***************************************************************************)
\* 'o', 'n', 'e', 't', 'w', '3'
LineAlphabet == {111, 110, 101, 116, 119, 51}

\* "twone", "xtwone3four", "treb7uchet", "1abc2", "oneight", "sevenine", "zero0"
TestLines ==
    { <<116, 119, 111, 110, 101>>,
      <<120, 116, 119, 111, 110, 101, 51, 102, 111, 117, 114>>,
      <<116, 114, 101, 98, 55, 117, 99, 104, 101, 116>>,
      <<49, 97, 98, 99, 50>>,
      <<111, 110, 101, 105, 103, 104, 116>>,
      <<115, 101, 118, 101, 110, 105, 110, 101>>,
      <<122, 101, 114, 111, 48>> }

Lines == SeqUpTo(LineAlphabet, MaxLineLen) \cup TestLines

DigitsInit ==
    /\ include_words \in BOOLEAN
    /\ digit_scanner \in {new(line) : line \in Lines}
    /\ all_digits = <<>>
    /\ first_digit = None
    /\ last_digit = 0
    /\ number = None

\* one turn of "for digit in all_digits", or the end of the loop
NextDigit ==
    /\ ~number.some
    /\ LET next == IF include_words
                   THEN DigitExtractor_next(digit_scanner)
                   ELSE no_words_next(digit_scanner)
       IN  /\ digit_scanner' = next.scanner
           /\ IF next.result.some
              THEN /\ first_digit' = IF first_digit.some THEN first_digit ELSE next.result
                   /\ last_digit' = next.result.val
                   /\ all_digits' = Append(all_digits, next.result.val)
                   /\ UNCHANGED number
              ELSE /\ number' = Some(extract_number_result(first_digit, last_digit))
                   /\ UNCHANGED <<first_digit, last_digit, all_digits>>
    /\ UNCHANGED <<include_words, nonDigitsVars>>

DigitsNext == NextDigit

DigitsSpecInit == DigitsInit /\ OthersIdle("digits")

DigitsSpec == DigitsSpecInit /\ [][DigitsNext]_vars

(***************************************************************************)
(* The day 3 part 2 solver: handle_line keeps the line, extract_solution   *)
(* builds the schematic and sums the gear ratios.                          *)
(***************************************************************************)
\* '.', '*', '2'
SchematicAlphabet == {46, 42, 50}

\* the rows of three squares, and three rows with a zero: "02*", "*02", "0*2"
SchematicRows ==
    [1..3 -> SchematicAlphabet] \cup {<<48, 50, 42>>, <<42, 48, 50>>, <<48, 42, 50>>}

\* the sample schematic of the tests
sample_schematic ==
    <<<<52, 54, 55, 46, 46, 49, 49, 52, 46, 46>>,
      <<46, 46, 46, 42, 46, 46, 46, 46, 46, 46>>,
      <<46, 46, 51, 53, 46, 46, 54, 51, 51, 46>>,
      <<46, 46, 46, 46, 46, 46, 35, 46, 46, 46>>,
      <<54, 49, 55, 42, 46, 46, 46, 46, 46, 46>>,
      <<46, 46, 46, 46, 46, 43, 46, 53, 56, 46>>,
      <<46, 46, 53, 57, 50, 46, 46, 46, 46, 46>>,
      <<46, 46, 46, 46, 46, 46, 55, 53, 53, 46>>,
      <<46, 46, 46, 36, 46, 42, 46, 46, 46, 46>>,
      <<46, 54, 54, 52, 46, 53, 57, 56, 46, 46>>>>

SchematicInit ==
    /\ schematic_lines \in {<<>>, sample_schematic}
    /\ schematic_op = "new"
    /\ schematic_arg = <<>>
    /\ schematic_ret = <<>>

SchematicHandleLine ==
    /\ Len(schematic_lines) < MaxSchematicHeight
    /\ \E line \in SchematicRows :
        schematic_lines' = Append(schematic_lines, line)
    /\ schematic_op' = "handle_line"
    /\ schematic_arg' = <<>>
    /\ schematic_ret' = <<>>
    /\ UNCHANGED nonSchematicVars

NeighboursFor ==
    /\ schematic_lines # <<>>
    /\ \E schematic \in {from_lines(schematic_lines)} :
           /\ schematic.status = "ok"
           /\ \E i \in 1..Len(schematic.numbers) :
                /\ schematic_arg' = schematic.numbers[i]
                /\ schematic_ret' = neighbours_for(schematic, schematic.numbers[i])
    /\ schematic_op' = "neighbours_for"
    /\ UNCHANGED <<schematic_lines, nonSchematicVars>>

\* SumOfGearRatios::extract_solution
SchematicExtractSolution ==
    /\ \E schematic \in {from_lines(schematic_lines)} :
           /\ schematic.status = "ok"
           /\ \E order \in value_orders(potential_gears(schematic)) :
                LET gears == get_gears(schematic, order)
                IN  schematic_ret' = [gears |-> gears,
                                      answer |-> to_string(sum_of_ratios(gears))]
    /\ schematic_op' = "extract_solution"
    /\ schematic_arg' = <<>>
    /\ UNCHANGED <<schematic_lines, nonSchematicVars>>

SchematicNext ==
    \/ SchematicHandleLine
    \/ NeighboursFor
    \/ SchematicExtractSolution

SchematicSpecInit == SchematicInit /\ OthersIdle("schematic")

SchematicSpec == SchematicSpecInit /\ [][SchematicNext]_vars

(***************************************************************************)
(* One call of Map::calculate_distance, one turn of its loop at a time.    *)
(***************************************************************************)
\* "AAA", "BBZ", "ZZZ"
NodeIds == {<<65, 65, 65>>, <<66, 66, 90>>, <<90, 90, 90>>}

\* every node defined, or every node but "ZZZ"
NodeMaps ==
    [NodeIds -> [left : NodeIds, right : NodeIds]]
        \cup [NodeIds \ {<<90, 90, 90>>} -> [left : NodeIds, right : NodeIds]]

\* the map of the test directions_are_cycled_until_destination, its node
\* "BBB" named "BBZ"
less_simple_map ==
    [directions |-> <<"Left", "Left", "Right">>,
     nodes |-> [id \in NodeIds |->
        IF id = <<65, 65, 65>> THEN Node_new(<<66, 66, 90>>, <<66, 66, 90>>)
        ELSE IF id = <<66, 66, 90>> THEN Node_new(<<65, 65, 65>>, <<90, 90, 90>>)
        ELSE Node_new(<<90, 90, 90>>, <<90, 90, 90>>)]]

WalkMaps ==
    [directions : SeqUpTo({"Left", "Right"}, MaxDirections), nodes : NodeMaps]
        \cup {less_simple_map}

\* the state at the top of the loop
WalkInit ==
    /\ walk_map \in WalkMaps
    /\ start_id = NodeId_new(<<65, 65, 65>>)
    /\ walk_end \in {"is_zzz", "ends_with_z"}
    /\ directions_index = 0
    /\ current_node_id = start_id
    /\ num_steps = 0
    /\ walk_pc = "loop"

\* one turn of the loop: the next direction of the cycle, the node's edge,
\* the count, the test
WalkTurn ==
    /\ walk_pc = "loop"
    /\ num_steps < MaxSteps
    /\ IF walk_map.directions = <<>> \/ current_node_id \notin DOMAIN walk_map.nodes
       THEN /\ walk_pc' = "panicked"
            /\ UNCHANGED <<directions_index, current_node_id, num_steps>>
       ELSE /\ directions_index' = (directions_index + 1) % Len(walk_map.directions)
            /\ current_node_id' = next_node_id(walk_map.nodes[current_node_id],
                                     walk_map.directions[directions_index + 1])
            /\ num_steps' = num_steps + 1
            /\ walk_pc' = IF end_holds(walk_end, current_node_id')
                          THEN "returned" ELSE "loop"
    /\ UNCHANGED <<walk_map, start_id, walk_end, nonWalkVars>>

WalkNext == WalkTurn

WalkSpecInit == WalkInit /\ OthersIdle("walk")

WalkSpec == WalkSpecInit /\ [][WalkNext]_vars

(***************************************************************************)
(* A hand made as the tests make it, and the calls on it.                  *)
(***************************************************************************)
\* '2', '3', '4', 'A', 'J'
HandAlphabet == {50, 51, 52, 65, 74}

\* the hands of the tests: "32T3K", "T55J5", "KK677", "KTJJT", "QQQJA", "A23JK"
TestHands ==
    {<<51, 50, 84, 51, 75>>,
     <<84, 53, 53, 74, 53>>,
     <<75, 75, 54, 55, 55>>,
     <<75, 84, 74, 74, 84>>,
     <<81, 81, 81, 74, 65>>,
     <<65, 50, 51, 74, 75>>}

HandTexts ==
    {text \in [1..5 -> HandAlphabet] :
        Cardinality({i \in 1..5 : text[i] = 74}) <= MaxJokers} \cup TestHands

\* make_hand
make_hand(line) == Hand_from_string_scanner(new(line)).result.value

HandInit ==
    /\ hand \in {make_hand(line) : line \in HandTexts}
    /\ hand_op = "new"
    /\ hand_ret = <<>>

HandTypeOf ==
    /\ hand_op' = "hand_type"
    /\ hand_ret' = hand_type(hand)
    /\ UNCHANGED <<hand, nonHandVars>>

PossibleHands ==
    /\ hand_op' = "possible_hands"
    /\ hand_ret' = possible_hands(hand)
    /\ UNCHANGED <<hand, nonHandVars>>

BestHandType ==
    /\ hand_op' = "best_hand_type"
    /\ hand_ret' = best_hand_type(hand)
    /\ UNCHANGED <<hand, nonHandVars>>

HandNext ==
    \/ HandTypeOf
    \/ PossibleHands
    \/ BestHandType

HandSpecInit == HandInit /\ OthersIdle("hand")

HandSpec == HandSpecInit /\ [][HandNext]_vars

(***************************************************************************)
(* The day 7 solver: handle_line parses and keeps a hand with its bid,     *)
(* extract_solution gives the total score.                                 *)
(***************************************************************************)
\* the lines of the tests
sample_bid_lines ==
    <<<<51, 50, 84, 51, 75, 32, 55, 54, 53>>,
      <<84, 53, 53, 74, 53, 32, 54, 56, 52>>,
      <<75, 75, 54, 55, 55, 32, 50, 56>>,
      <<75, 84, 74, 74, 84, 32, 50, 50, 48>>,
      <<81, 81, 81, 74, 65, 32, 52, 56, 51>>>>

\* three lines of the tests, and "J2345 2", "22345 3", "32T3K 1", "32T3 5"
BidLines ==
    {sample_bid_lines[i] : i \in 1..3} \cup
    {<<74, 50, 51, 52, 53, 32, 50>>,
     <<50, 50, 51, 52, 53, 32, 51>>,
     <<51, 50, 84, 51, 75, 32, 49>>,
     <<51, 50, 84, 51, 32, 53>>}

\* make_hands_with_bids
make_hands_with_bids ==
    [i \in 1..Len(sample_bid_lines) |-> HandWithBid_from_string(sample_bid_lines[i]).value]

BidsInit ==
    /\ hands_with_bids \in {<<>>, make_hands_with_bids}
    /\ compare_type \in {"Basic", "Joker"}
    /\ bids_op = "new"
    /\ bids_ret = <<>>

BidsHandleLine ==
    /\ Len(hands_with_bids) < MaxHands
    /\ \E line \in BidLines :
        \E parsed \in {HandWithBid_from_string(line)} :
            /\ hands_with_bids' = IF parsed.ok
                                  THEN Append(hands_with_bids, parsed.value)
                                  ELSE hands_with_bids
            /\ bids_ret' = [ok |-> parsed.ok]
    /\ bids_op' = "handle_line"
    /\ UNCHANGED <<compare_type, nonBidsVars>>

BidsExtractSolution ==
    /\ bids_op' = "extract_solution"
    /\ bids_ret' = to_string(total_score(hands_with_bids, compare_type))
    /\ UNCHANGED <<hands_with_bids, compare_type, nonBidsVars>>

BidsNext ==
    \/ BidsHandleLine
    \/ BidsExtractSolution

BidsSpecInit == BidsInit /\ OthersIdle("bids")

BidsSpec == BidsSpecInit /\ [][BidsNext]_vars

(***************************************************************************)
(* A Sequence and its expand_once.                                         *)
(***************************************************************************)
Terms == {0, 1, 2, 3}

\* the numbers of the test can_expand_sequence
test_nums == <<10, 13, 16, 21, 30, 45>>

SequenceInit ==
    /\ sequence_nums \in SeqUpTo(Terms, MaxSeqLen) \cup {test_nums}
    /\ sequence = sequence_nums
    /\ sequence_op = "new"
    /\ sequence_ret = <<>>

ExpandOnce ==
    /\ sequence_op = "new"
    /\ \E result \in {expand_once(sequence)} :
        /\ sequence' = result.value
        /\ sequence_ret' = [ok |-> result.ok, steps |-> result.steps]
    /\ sequence_op' = "expand_once"
    /\ UNCHANGED <<sequence_nums, nonSequenceVars>>

SequenceNext == ExpandOnce

SequenceSpecInit == SequenceInit /\ OthersIdle("sequence")

SequenceSpec == SequenceSpecInit /\ [][SequenceNext]_vars

(***************************************************************************)
(* Races, made as the tests make them, and the calls on them.              *)
(***************************************************************************)
\* the races of the tests, a race of no time and a race that cannot be won
TestRaces ==
    {Race_new(7, 9), Race_new(15, 40), Race_new(30, 200), Race_new(0, 0),
     Race_new(2, 1)}

RacesInit ==
    /\ races \in SeqUpTo(TestRaces, MaxRaces)
                    \cup {<<Race_new(7, 9), Race_new(15, 40), Race_new(30, 200)>>}
    /\ races_op = "new"
    /\ races_arg = <<>>
    /\ races_ret = 0

NumWaysToWin ==
    /\ \E total_time \in 0..MaxTime, distance_to_beat \in 0..MaxDistance :
        /\ races_arg' = Race_new(total_time, distance_to_beat)
        /\ races_ret' = num_ways_to_win(total_time, distance_to_beat)
    /\ races_op' = "num_ways_to_win"
    /\ UNCHANGED <<races, nonRacesVars>>

RaceNumWaysToWin ==
    /\ \E k \in 1..Len(races) :
        /\ races_arg' = races[k]
        /\ races_ret' = num_ways_to_win(races[k].total_time, races[k].distance_to_beat)
    /\ races_op' = "num_ways_to_win"
    /\ UNCHANGED <<races, nonRacesVars>>

MarginOfError ==
    /\ races_op' = "margin_of_error"
    /\ races_arg' = <<>>
    /\ races_ret' = margin_of_error(races)
    /\ UNCHANGED <<races, nonRacesVars>>

RacesNext ==
    \/ NumWaysToWin
    \/ RaceNumWaysToWin
    \/ MarginOfError

RacesSpecInit == RacesInit /\ OthersIdle("races")

RacesSpec == RacesSpecInit /\ [][RacesNext]_vars

(***************************************************************************)
(* The day 11 solver and its universe.                                     *)
(***************************************************************************)
\* ".", "#", "..", "#.", ".#", "..#"
UniverseRows ==
    {<<46>>, <<35>>, <<46, 46>>, <<35, 46>>, <<46, 35>>, <<46, 46, 35>>}

\* the universe of the tests
simple_universe ==
    << <<46, 46, 46, 35, 46, 46, 46, 46, 46, 46>>,
       <<46, 46, 46, 46, 46, 46, 46, 35, 46, 46>>,
       <<35, 46, 46, 46, 46, 46, 46, 46, 46, 46>>,
       <<46, 46, 46, 46, 46, 46, 46, 46, 46, 46>>,
       <<46, 46, 46, 46, 46, 46, 35, 46, 46, 46>>,
       <<46, 35, 46, 46, 46, 46, 46, 46, 46, 46>>,
       <<46, 46, 46, 46, 46, 46, 46, 46, 46, 35>>,
       <<46, 46, 46, 46, 46, 46, 46, 46, 46, 46>>,
       <<46, 46, 46, 46, 46, 46, 46, 35, 46, 46>>,
       <<35, 46, 46, 46, 46, 35, 46, 46, 46, 46>> >>

\* the builder after the lines were added in order
added_lines(lines) ==
    LET added[k \in 0..Len(lines)] ==
            IF k = 0 THEN UniverseBuilder_default
            ELSE UniverseBuilder_add_line(added[k - 1], lines[k])
    IN  added[Len(lines)]

\* the factors of the two parts and of the tests, and the small ones
Factors == (0..MaxFactor) \cup {10, 1000000}

UniverseInit ==
    /\ universe_lines \in {<<>>, simple_universe}
    /\ universe_builder = added_lines(universe_lines)
    /\ universe = UniverseBuilder_build(universe_builder)
    /\ universe_op = "new"
    /\ universe_arg = 0
    /\ universe_ret = 0

UniverseAddLine ==
    /\ universe_builder.height < MaxUniverseHeight
    /\ \E line \in UniverseRows :
        /\ universe_lines' = Append(universe_lines, line)
        /\ universe_builder' = UniverseBuilder_add_line(universe_builder, line)
    /\ universe_op' = "add_line"
    /\ UNCHANGED <<universe, universe_arg, universe_ret, nonUniverseVars>>

\* the tests' ub.build() followed by univ.expand(factor)
UniverseExpand ==
    /\ \E factor \in Factors :
        /\ universe' = Universe_expand(UniverseBuilder_build(universe_builder), factor)
        /\ universe_arg' = factor
    /\ universe_op' = "expand"
    /\ UNCHANGED <<universe_lines, universe_builder, universe_ret, nonUniverseVars>>

UniverseSumOfShortestPaths ==
    /\ universe_op \in {"expand", "sum_of_shortest_paths"}
    /\ universe_ret' = sum_of_shortest_paths(universe.galaxies)
    /\ universe_op' = "sum_of_shortest_paths"
    /\ UNCHANGED <<universe_lines, universe_builder, universe, universe_arg,
                   nonUniverseVars>>

\* Solution::extract_solution of part_1 (factor 2) and of part_2
UniverseExtractSolution ==
    /\ \E factor \in {2, 1000000} :
        \E expanded \in {Universe_expand(UniverseBuilder_build(universe_builder), factor)} :
            /\ universe' = expanded
            /\ universe_arg' = factor
            /\ universe_ret' = to_string(sum_of_shortest_paths(expanded.galaxies))
    /\ universe_op' = "extract_solution"
    /\ UNCHANGED <<universe_lines, universe_builder, nonUniverseVars>>

UniverseNext ==
    \/ UniverseAddLine
    \/ UniverseExpand
    \/ UniverseSumOfShortestPaths
    \/ UniverseExtractSolution

UniverseSpecInit == UniverseInit /\ OthersIdle("universe")

UniverseSpec == UniverseSpecInit /\ [][UniverseNext]_vars

(***************************************************************************)
(* The day 10 solver: a maze is built and solved.                          *)
(***************************************************************************)
\* "F-7", "S-7", "|.|", "|-|", "L-J", "...", "-S-", "S7.", "LJ."
MazeRows ==
    {<<70, 45, 55>>, <<83, 45, 55>>, <<124, 46, 124>>, <<124, 45, 124>>,
     <<76, 45, 74>>, <<46, 46, 46>>, <<45, 83, 45>>, <<83, 55, 46>>,
     <<76, 74, 46>>}

\* ".....", ".S-7.", ".|.|.", ".L-J.", "....."
simple_maze ==
    << <<46, 46, 46, 46, 46>>, <<46, 83, 45, 55, 46>>, <<46, 124, 46, 124, 46>>,
       <<46, 76, 45, 74, 46>>, <<46, 46, 46, 46, 46>> >>

\* "7-F7-", ".FJ|7", "SJLL7", "|F--J", "LJ.LJ"
complex_maze ==
    << <<55, 45, 70, 55, 45>>, <<46, 70, 74, 124, 55>>, <<83, 74, 76, 76, 55>>,
       <<124, 70, 45, 45, 74>>, <<76, 74, 46, 76, 74>> >>

MazeInit ==
    /\ maze_lines \in SeqUpTo(MazeRows, MaxMazeHeight) \cup {simple_maze, complex_maze}
    /\ maze = IF maze_lines = <<>>
              THEN [ok |-> FALSE, kind |-> "General"]
              ELSE MazeBuilder_build(maze_lines)
    /\ path_x = <<>>
    /\ path_y = <<>>
    /\ maze_pc = IF maze_lines = <<>> THEN "panicked"
                 ELSE IF maze.ok THEN "built" ELSE "failed"
    /\ solved_maze = [tiles |-> <<>>, path |-> <<>>]
    /\ maze_ret = 0

\* solve, find_path, extend_paths_to_convergence up to its loop
MazeStartingPaths ==
    /\ maze_pc = "built"
    /\ \E started \in {starting_paths(maze.value)} :
        IF started.ok
        THEN /\ path_x' = started.x
             /\ path_y' = started.y
             /\ maze_pc' = "loop"
        ELSE /\ maze_pc' = "failed"
             /\ UNCHANGED <<path_x, path_y>>
    /\ UNCHANGED <<maze_lines, maze, solved_maze, maze_ret, nonMazeVars>>

\* one turn of the loop of extend_paths_to_convergence and, when the two
\* paths have met, the rest of find_path and of solve
MazeExtend ==
    /\ maze_pc = "loop"
    /\ Len(path_x) < MaxPathLen
    /\ \E new_x \in {Path_extend(path_x, maze.value)} :
        IF ~new_x.ok
        THEN /\ maze_pc' = "failed"
             /\ UNCHANGED <<path_x, path_y, solved_maze>>
        ELSE \E new_y \in {Path_extend(path_y, maze.value)} :
            IF ~new_y.ok
            THEN /\ path_x' = new_x.path
                 /\ maze_pc' = "failed"
                 /\ UNCHANGED <<path_y, solved_maze>>
            ELSE /\ path_x' = new_x.path
                 /\ path_y' = new_y.path
                 /\ IF new_x.value = new_y.value
                    THEN \E path \in {find_path(new_x.path, new_y.path)} :
                        /\ solved_maze' = [tiles |-> solved_tiles(maze.value, path),
                                           path |-> path]
                        /\ maze_pc' = "solved"
                    ELSE /\ maze_pc' = "loop"
                         /\ UNCHANGED solved_maze
    /\ UNCHANGED <<maze_lines, maze, maze_ret, nonMazeVars>>

\* Part::One of extract_solution
MazeMaxDistanceFromStart ==
    /\ maze_pc = "solved"
    /\ maze_ret' = max_distance_from_start(solved_maze.path)
    /\ maze_pc' = "returned"
    /\ UNCHANGED <<maze_lines, maze, path_x, path_y, solved_maze, nonMazeVars>>

MazeNext ==
    \/ MazeStartingPaths
    \/ MazeExtend
    \/ MazeMaxDistanceFromStart

MazeSpecInit == MazeInit /\ OthersIdle("maze")

MazeSpec == MazeSpecInit /\ [][MazeNext]_vars

(***************************************************************************)
(* The day 4 part 2 solver: cards are added, then counted with the copies  *)
(* they win.                                                               *)
(***************************************************************************)
\* "Card 1: 1 2 | 3", "Card 1: 1 2 | 1", "Card 1: 1 2 | 2 1", "Card 2: 1 | 1 1", "Card 1 | 1"
CardLines ==
    {<<67, 97, 114, 100, 32, 49, 58, 32, 49, 32, 50, 32, 124, 32, 51>>,
     <<67, 97, 114, 100, 32, 49, 58, 32, 49, 32, 50, 32, 124, 32, 49>>,
     <<67, 97, 114, 100, 32, 49, 58, 32, 49, 32, 50, 32, 124, 32, 50, 32,
      49>>,
     <<67, 97, 114, 100, 32, 50, 58, 32, 49, 32, 124, 32, 49, 32, 49>>,
     <<67, 97, 114, 100, 32, 49, 32, 124, 32, 49>>}

\* the lines of sample_card_collection
sample_card_lines ==
    <<<<67, 97, 114, 100, 32, 49, 58, 32, 52, 49, 32, 52, 56, 32, 56, 51,
       32, 56, 54, 32, 49, 55, 32, 124, 32, 56, 51, 32, 56, 54, 32, 32, 54,
       32, 51, 49, 32, 49, 55, 32, 32, 57, 32, 52, 56, 32, 53, 51>>,
      <<67, 97, 114, 100, 32, 50, 58, 32, 49, 51, 32, 51, 50, 32, 50, 48,
       32, 49, 54, 32, 54, 49, 32, 124, 32, 54, 49, 32, 51, 48, 32, 54, 56,
       32, 56, 50, 32, 49, 55, 32, 51, 50, 32, 50, 52, 32, 49, 57>>,
      <<67, 97, 114, 100, 32, 51, 58, 32, 32, 49, 32, 50, 49, 32, 53, 51,
       32, 53, 57, 32, 52, 52, 32, 124, 32, 54, 57, 32, 56, 50, 32, 54, 51,
       32, 55, 50, 32, 49, 54, 32, 50, 49, 32, 49, 52, 32, 32, 49>>,
      <<67, 97, 114, 100, 32, 52, 58, 32, 52, 49, 32, 57, 50, 32, 55, 51,
       32, 56, 52, 32, 54, 57, 32, 124, 32, 53, 57, 32, 56, 52, 32, 55, 54,
       32, 53, 49, 32, 53, 56, 32, 32, 53, 32, 53, 52, 32, 56, 51>>,
      <<67, 97, 114, 100, 32, 53, 58, 32, 56, 55, 32, 56, 51, 32, 50, 54,
       32, 50, 56, 32, 51, 50, 32, 124, 32, 56, 56, 32, 51, 48, 32, 55, 48,
       32, 49, 50, 32, 57, 51, 32, 50, 50, 32, 56, 50, 32, 51, 54>>,
      <<67, 97, 114, 100, 32, 54, 58, 32, 51, 49, 32, 49, 56, 32, 49, 51,
       32, 53, 54, 32, 55, 50, 32, 124, 32, 55, 52, 32, 55, 55, 32, 49, 48,
       32, 50, 51, 32, 51, 53, 32, 54, 55, 32, 51, 54, 32, 49, 49>>>>

sample_card_collection ==
    [k \in 1..Len(sample_card_lines) |-> Card_from_string(sample_card_lines[k]).value]

CardsInit ==
    /\ cards \in {<<>>, sample_card_collection}
    /\ card_ret = [ok |-> TRUE]
    /\ queue = <<>>
    /\ queue_id = 0
    /\ count = 0
    /\ cards_pc = "idle"

\* Part2::handle_line, CardCollection::add_card_from_string
AddCardFromString ==
    /\ cards_pc = "idle"
    /\ Len(cards) < MaxCards
    /\ \E line \in CardLines :
        \E card \in {Card_from_string(line)} :
            IF card.ok
            THEN /\ cards' = Append(cards, card.value)
                 /\ card_ret' = [ok |-> TRUE]
            ELSE /\ card_ret' = card
                 /\ UNCHANGED cards
    /\ UNCHANGED <<queue, queue_id, count, cards_pc, nonCardsVars>>

\* expanded_number up to its loop: every id is put in the queue
ExpandedNumber ==
    /\ cards_pc = "idle"
    /\ queue' = [i \in 1..Len(cards) |-> i]
    /\ count' = 0
    /\ cards_pc' = "loop"
    /\ UNCHANGED <<cards, card_ret, queue_id, nonCardsVars>>

\* one turn of the loop: an id is taken from the front, its card is read
\* (the index is checked), the ids after it are put at the back
PopFront ==
    /\ cards_pc = "loop"
    /\ IF queue = <<>>
       THEN /\ cards_pc' = "returned"
            /\ UNCHANGED <<queue, queue_id, count>>
       ELSE /\ queue_id' = Head(queue)
            /\ IF Head(queue) - 1 >= Len(cards)
               THEN /\ cards_pc' = "panicked"
                    /\ queue' = Tail(queue)
                    /\ UNCHANGED count
               ELSE /\ queue' = Tail(queue) \o
                        [i \in 1..Card_num_matching(cards[Head(queue)]) |->
                            Head(queue) + (i - 1) + 1]
                    /\ count' = count + 1
                    /\ UNCHANGED cards_pc
    /\ UNCHANGED <<cards, card_ret, nonCardsVars>>

CardsNext ==
    \/ AddCardFromString
    \/ ExpandedNumber
    \/ PopFront

CardsSpecInit == CardsInit /\ OthersIdle("cards")

CardsSpec == CardsSpecInit /\ [][CardsNext]_vars

(***************************************************************************)
(* The walk with its loop running: nothing stops a turn that can be taken  *)
(* (the loop has no exit but the break and no wait).                       *)
(***************************************************************************)
WalkFairSpec == WalkSpecInit /\ [][WalkNext]_vars /\ WF_vars(WalkTurn)

(***************************************************************************)
(* The day 8 part 2 solver.                                                *)
(***************************************************************************)
\* "11A", "22A", "11Z"
GhostIds == {<<49, 49, 65>>, <<50, 50, 65>>, <<49, 49, 90>>}

\* the builder after a line of directions and a line for each of the ids
DefinedBuilders ==
    {[directions |-> Some(directions),
      node_definitions |->
        << <<<<49, 49, 65>>, nodes[<<49, 49, 65>>]>>,
           <<<<50, 50, 65>>, nodes[<<50, 50, 65>>]>>,
           <<<<49, 49, 90>>, nodes[<<49, 49, 90>>]>> >>] :
        directions \in SeqUpTo({"Left", "Right"}, MaxDirections),
        nodes \in [GhostIds -> [left : GhostIds, right : GhostIds]]}

\* "L", "LR", "X", "", "11A = (11Z, 11Z)", "11Z = (11A, 11Z)", "11A = (11Z"
MapLines ==
    {<<76>>,
     <<76, 82>>,
     <<88>>,
     <<>>,
     <<49, 49, 65, 32, 61, 32, 40, 49, 49, 90, 44, 32, 49, 49, 90, 41>>,
     <<49, 49, 90, 32, 61, 32, 40, 49, 49, 65, 44, 32, 49, 49, 90, 41>>,
     <<49, 49, 65, 32, 61, 32, 40, 49, 49, 90>>}

Part2Init ==
    /\ map_builder \in {MapBuilder_default} \cup DefinedBuilders
    /\ lines_added = IF map_builder = MapBuilder_default THEN 0
                     ELSE 1 + Len(map_builder.node_definitions)
    /\ part2_op = "new"
    /\ part2_ret = [kind |-> "ok"]

Part2HandleLine ==
    /\ part2_op \in {"new", "handle_line"}
    /\ lines_added < MaxMapLines
    /\ \E line \in MapLines :
        \E added \in {MapBuilder_add_line(map_builder, line)} :
            /\ map_builder' = added.builder
            /\ part2_ret' = IF added.ok THEN [kind |-> "ok"]
                            ELSE [kind |-> "err"]
    /\ lines_added' = lines_added + 1
    /\ part2_op' = "handle_line"
    /\ UNCHANGED nonPart2Vars

\* the permutations of a set of ids
Orders(ids) ==
    {order \in [1..Cardinality(ids) -> ids] :
        \A i, j \in 1..Cardinality(ids) : i # j => order[i] # order[j]}

Part2ExtractSolution ==
    /\ part2_op \in {"new", "handle_line"}
    /\ \E built \in {MapBuilder_build(map_builder)} :
        IF built.kind # "ok"
        THEN part2_ret' = built
        ELSE \E order \in Orders(start_nodes(built.value)) :
                part2_ret' = Part2_extract_solution(map_builder, order)
    /\ part2_op' = "extract_solution"
    /\ UNCHANGED <<map_builder, lines_added, nonPart2Vars>>

Part2Next ==
    \/ Part2HandleLine
    \/ Part2ExtractSolution

Part2SpecInit == Part2Init /\ OthersIdle("part2")

Part2Spec == Part2SpecInit /\ [][Part2Next]_vars

(***************************************************************************)
(* Day 2 part 2: each line is a game, and the power of its minimal cube    *)
(* set is added to the sum.                                                *)
(***************************************************************************)
\* two games of several cube sets, a game of one cube set, two games whose
\* product does not fit 16 bits, and a line that is no game
AllGameLines ==
    { \* "Game 1: 3 blue, 4 red; 2 green"
      <<71, 97, 109, 101, 32, 49, 58, 32, 51, 32, 98, 108, 117, 101, 44, 32, 52, 32, 114, 101, 100, 59, 32, 50, 32, 103, 114, 101, 101, 110>>,
      \* "Game 3: 20 red, 8 green; 6 blue"
      <<71, 97, 109, 101, 32, 51, 58, 32, 50, 48, 32, 114, 101, 100, 44, 32, 56, 32, 103, 114, 101, 101, 110, 59, 32, 54, 32, 98, 108, 117, 101>>,
      \* "Game 4: 1 red"
      <<71, 97, 109, 101, 32, 52, 58, 32, 49, 32, 114, 101, 100>>,
      \* "Game 5: 50 red, 50 green, 50 blue"
      <<71, 97, 109, 101, 32, 53, 58, 32, 53, 48, 32, 114, 101, 100, 44, 32, 53, 48, 32, 103, 114, 101, 101, 110, 44, 32, 53, 48, 32, 98, 108, 117, 101>>,
      \* "Game 6: 256 red; 256 green"
      <<71, 97, 109, 101, 32, 54, 58, 32, 50, 53, 54, 32, 114, 101, 100, 59, 32, 50, 53, 54, 32, 103, 114, 101, 101, 110>>,
      \* "Game x"
      <<71, 97, 109, 101, 32, 120>> }

\* the lines that the scaled word can scan: the cursor stays below Modulus
GameLines == {line \in AllGameLines : Len(line) <= UsizeMax}

CubesInit ==
    /\ cube_sum = 0
    /\ cubes_overflow_checks \in BOOLEAN
    /\ games_handled = 0
    /\ cubes_op = "new"
    /\ cubes_arg = <<>>
    /\ cubes_ret = [kind |-> "ok"]

\* Part2::handle_line; a panic ends the process
CubesHandleLine ==
    /\ cubes_ret.kind # "panicked"
    /\ games_handled < MaxGames
    /\ \E line \in GameLines :
        \E outcome \in {Cubes_handle_line(cube_sum, line, cubes_overflow_checks)} :
            /\ cube_sum' = outcome.sum
            /\ cubes_op' = "handle_line"
            /\ cubes_arg' = [line |-> line, sum |-> cube_sum]
            /\ cubes_ret' = outcome.result
    /\ games_handled' = games_handled + 1
    /\ UNCHANGED <<cubes_overflow_checks, nonCubesVars>>

\* Part2::extract_solution
CubesExtractSolution ==
    /\ cubes_ret.kind # "panicked"
    /\ cubes_op' = "extract_solution"
    /\ cubes_arg' = <<>>
    /\ cubes_ret' = [kind |-> "ok", value |-> to_string(cube_sum)]
    /\ UNCHANGED <<cube_sum, cubes_overflow_checks, games_handled, nonCubesVars>>

CubesNext == CubesHandleLine \/ CubesExtractSolution

CubesSpecInit == CubesInit /\ OthersIdle("cubes")

CubesSpec == CubesSpecInit /\ [][CubesNext]_vars

(***************************************************************************)
(* Properties of the scanner.                                              *)
(***************************************************************************)
position == scanner.current_position

source_len == Len(scanner.chars)

\* text occurs in chars, character for character, from cursor p
OccursAt(chars, p, text) ==
    /\ p + Len(text) <= Len(chars)
    /\ \A i \in 1..Len(text) : chars[p + i] = text[i]

\* the length of the longest run of ASCII digits of chars from cursor p
DigitRunLen(chars, p) ==
    CHOOSE k \in 0..(Len(chars) - p) :
        /\ \A i \in 1..k : 48 <= chars[p + i] /\ chars[p + i] <= 57
        /\ p + k = Len(chars) \/ chars[p + k + 1] < 48 \/ chars[p + k + 1] > 57

RECURSIVE Pow10(_)
Pow10(k) == IF k = 0 THEN 1 ELSE 10 * Pow10(k - 1)

RECURSIVE DecimalSum(_, _, _)
\* the sum of digit * 10^place over the k digits of chars from cursor p
DecimalSum(chars, p, k) ==
    IF k = 0 THEN 0
    ELSE (chars[p + 1] - 48) * Pow10(k - 1) + DecimalSum(chars, p + 1, k - 1)

\* C1: after every scanner operation the cursor is within 0..length(source)
\* and not smaller than before the operation, and advance() at the end of
\* the source leaves the cursor where it was.
C1_CursorInRangeAndMonotone ==
    /\ 0 <= position
    /\ position <= source_len
    /\ position >= before
    /\ (op = "advance" /\ before = source_len) => position = before

\* C2: match_string(text) returns true exactly when text occurs at the
\* cursor; when true the cursor has advanced by the number of characters of
\* text, when false the cursor is unchanged.
C2_MatchStringAdvancesByChars ==
    op = "match_string" =>
        /\ ret = OccursAt(scanner.chars, before, arg)
        /\ ret => position = before + Len(arg)
        /\ ~ret => position = before

\* C3: advance_by(n) leaves the cursor at min(position + n, length(source))
\* for every n of the machine word, without overflow.
C3_AdvanceByClamps ==
    op = "advance_by" =>
        /\ ~panicked
        /\ position = Min(before + arg, source_len)

\* C4: expect_char(c) / expect_string(text) succeed exactly when match_char /
\* match_string would return true at the cursor; a failure is UnexpectedChar /
\* UnexpectedString carrying the expected token and the cursor as position,
\* and leaves the cursor where it was.
C4_ExpectFailsWithCursor ==
    LET pre == [chars |-> scanner.chars, current_position |-> before]
    IN  /\ op = "expect_char" =>
            /\ ret.ok = match_char(pre, arg).result
            /\ ret.ok = (before < source_len /\ scanner.chars[before + 1] = arg)
            /\ ~ret.ok =>
                /\ ret = [ok |-> FALSE, kind |-> "UnexpectedChar",
                          expected |-> arg, position |-> position]
                /\ position = before
        /\ op = "expect_string" =>
            /\ ret.ok = match_string(pre, arg).result
            /\ ret.ok = OccursAt(scanner.chars, before, arg)
            /\ ~ret.ok =>
                /\ ret = [ok |-> FALSE, kind |-> "UnexpectedString",
                          expected |-> arg, position |-> position]
                /\ position = before

C4_Witness ==
    /\ op = "expect_string"
    /\ before > 0
    /\ before < source_len
    /\ Len(arg) = 2
    /\ scanner.chars[before + 1] = arg[1]
    /\ ~ret.ok

\* C5: with the cursor at the start of a non-empty run of ASCII digits whose
\* value fits T, expect_uint::<T>() returns the value of the whole run and
\* leaves the cursor on the first character after it ("20 January": 20, 2).
C5_ExpectUintReadsWholeRun ==
    op = "expect_uint" =>
        LET k == DigitRunLen(scanner.chars, before)
            v == DecimalSum(scanner.chars, before, k)
        IN  (k > 0 /\ v <= uint_max(arg)) =>
                /\ ret = [ok |-> TRUE, value |-> v]
                /\ position = before + k

C5_Witness ==
    /\ scanner.chars = <<50, 48, 32, 74, 97, 110, 117, 97, 114, 121>>
    /\ op = "expect_uint"
    /\ before = 0
    /\ ret = [ok |-> TRUE, value |-> 20]
    /\ position = 2

\* C6: expect_uint::<T>() returns NotAUint, never a value, when the digit run
\* at the cursor is empty or its value exceeds T's maximum; the error carries
\* the scanner's cursor.
C6_ExpectUintRejectsEmptyAndOverflow ==
    op = "expect_uint" =>
        LET k == DigitRunLen(scanner.chars, before)
            v == DecimalSum(scanner.chars, before, k)
        IN  (k = 0 \/ v > uint_max(arg)) =>
                /\ ~ret.ok
                /\ ret.kind = "NotAUint"
                /\ ret.position = position

C6_Witness ==
    /\ scanner.chars = <<50, 53, 54>>
    /\ op = "expect_uint"
    /\ arg = "u8"
    /\ before = 0
    /\ ~ret.ok
    /\ ret.source_error = "PosOverflow"

(***************************************************************************)
(* Properties of the grid.                                                 *)
(***************************************************************************)
InGrid(g, x, y) == 0 <= x /\ x < g.width /\ 0 <= y /\ y < g.height

\* the step (dx, dy) of a direction: north is up (y - 1), west is left (x - 1)
DirectionStep(direction) ==
    [dx |-> IF direction \in {"NorthWest", "West", "SouthWest"} THEN -1
            ELSE IF direction \in {"NorthEast", "East", "SouthEast"} THEN 1
            ELSE 0,
     dy |-> IF direction \in {"NorthWest", "North", "NorthEast"} THEN -1
            ELSE IF direction \in {"SouthWest", "South", "SouthEast"} THEN 1
            ELSE 0]

\* C7: on a grid of at least one column and one row, to_index undoes to_point
\* on every index below width * height, to_point of such an index lies in the
\* grid, and to_point undoes to_index on every point of the grid.
C7_PointIndexRoundTrip ==
    /\ gop = "to_point" =>
        /\ InGrid(grid, gret.x, gret.y)
        /\ to_index(grid, gret) = garg
    /\ gop = "to_index" =>
        /\ 0 <= gret /\ gret < grid.width * grid.height
        /\ to_point(grid, gret) = garg

C7_Witness ==
    /\ grid = Grid_new(4, 3)
    /\ gop = "to_point"
    /\ garg = 6
    /\ gret = Point_new(2, 1)

\* C8: neighbour(i, d) is None exactly when the step of d from to_point(i)
\* leaves the grid on either axis; otherwise it is the index of the point
\* stepped to, a valid index other than i.
C8_NeighbourIsTheStepOrNone ==
    gop = "neighbour" =>
        LET from == to_point(grid, garg.idx)
            nx == from.x + DirectionStep(garg.direction).dx
            ny == from.y + DirectionStep(garg.direction).dy
        IN  /\ (gret = None) = ~InGrid(grid, nx, ny)
            /\ InGrid(grid, nx, ny) =>
                /\ gret = Some(ny * grid.width + nx)
                /\ gret.val \in 0..(grid.width * grid.height - 1)
                /\ gret.val # garg.idx

C8_Witness ==
    /\ grid = Grid_new(4, 3)
    /\ gop = "neighbour"
    /\ garg = [idx |-> 3, direction |-> "SouthEast"]
    /\ gret = None

\* C9: neighbours(i) is the in-bounds results of neighbour(i, d) for d in the
\* order NW, N, NE, W, E, SW, S, SE, without duplicates and without i, hence
\* strictly ascending; on the 4x3 grid neighbours(0) = [1,4,5],
\* neighbours(5) = [0,1,2,4,6,8,9,10] and neighbours(10) = [5,6,7,9,11].
C9_NeighboursInDirectionOrder ==
    gop = "neighbours" =>
        LET order == <<"NorthWest", "North", "NorthEast", "West",
                       "East", "SouthWest", "South", "SouthEast">>
            IsSome(k) == neighbour(grid, garg, order[k]).some
            inside == SelectSeq([k \in 1..8 |-> k], IsSome)
        IN  /\ gret = [j \in 1..Len(inside) |-> neighbour(grid, garg, order[inside[j]]).val]
            /\ \A j \in 1..Len(gret) : gret[j] # garg
            /\ \A j, k \in 1..Len(gret) : j < k => gret[j] < gret[k]
            /\ grid = Grid_new(4, 3) =>
                /\ garg = 0 => gret = <<1, 4, 5>>
                /\ garg = 5 => gret = <<0, 1, 2, 4, 6, 8, 9, 10>>
                /\ garg = 10 => gret = <<5, 6, 7, 9, 11>>

C9_Witness ==
    /\ grid = Grid_new(4, 3)
    /\ gop = "neighbours"
    /\ garg = 10
    /\ gret = <<5, 6, 7, 9, 11>>

(***************************************************************************)
(* Properties of the harness.                                              *)
(***************************************************************************)
\* C10: handle_line is called once per line in file order; extract_solution
\* is called at most once and only after every line was ingested
\* successfully; once reading or handling a line has failed there is no
\* further handle_line, no extract_solution and no printed solution.
C10_LinesInOrderThenExtractOnce ==
    /\ \A i \in 1..Len(handled) : handled[i] = i
    /\ Len(handled) <= Len(file.lines)
    /\ extract_calls <= 1
    /\ printed <= extract_calls
    /\ extract_calls = 1 =>
        /\ Len(handled) = Len(file.lines)
        /\ \A i \in 1..Len(file.lines) : file.lines[i] = "ok"
    /\ \A i \in 1..Len(file.lines) :
        /\ file.lines[i] = "read_err" => Len(handled) < i
        /\ file.lines[i] = "handle_err" => Len(handled) <= i
    /\ exit \in {"Err(Io)", "Err(handle_line)"} =>
        /\ extract_calls = 0
        /\ printed = 0
    /\ exit = "Err(extract_solution)" => printed = 0

C10_Witness ==
    /\ file.lines = <<"ok", "handle_err", "ok">>
    /\ handled = <<1, 2>>
    /\ exit = "Err(handle_line)"
    /\ hpc = "returned"
    /\ extract_calls = 0
    /\ printed = 0

(***************************************************************************)
(* Properties of the almanac.                                              *)
(***************************************************************************)
\* the ranges of map, by position, whose half-open source interval holds v
Containing(map, v) ==
    {k \in 1..Len(map) :
        /\ map[k].source_start <= v
        /\ v < map[k].source_start + map[k].source_length}

\* v through one table: the first containing range translates, else identity
Remapped(map, v) ==
    IF Containing(map, v) = {} THEN v
    ELSE LET earliest == CHOOSE k \in Containing(map, v) :
                             \A j \in Containing(map, v) : k <= j
         IN  map[earliest].destination_start + (v - map[earliest].source_start)

RECURSIVE RemappedThroughAll(_, _)
RemappedThroughAll(maps, v) ==
    IF maps = <<>> THEN v
    ELSE RemappedThroughAll(Tail(maps), Remapped(Head(maps), v))

\* C11: mapping v through one table gives destination_start + (v -
\* source_start) of the first range, in table order, whose interval
\* [source_start, source_start + length) holds v, and v itself when none does
\* ({50, 98, 2}: 98 -> 50, 99 -> 51, 97 and 100 unchanged); calculate_location
\* feeds the value through the tables in insertion order.
C11_FirstMatchingRangeThenFold ==
    /\ almanac_op = "map_value" =>
        /\ almanac_ret = Remapped(almanac_arg.map, almanac_arg.value)
        /\ almanac_arg.map = <<ValueMapRange_new(50, 98, 2)>> =>
            /\ almanac_arg.value = 97 => almanac_ret = 97
            /\ almanac_arg.value = 98 => almanac_ret = 50
            /\ almanac_arg.value = 99 => almanac_ret = 51
            /\ almanac_arg.value = 100 => almanac_ret = 100
    /\ almanac_op = "calculate_location" =>
        almanac_ret = RemappedThroughAll(value_maps, almanac_arg)

C11_Witness ==
    /\ almanac_op = "map_value"
    /\ Len(almanac_arg.map) = 2
    /\ Cardinality(Containing(almanac_arg.map, almanac_arg.value)) = 2
    /\ almanac_ret = 6

(***************************************************************************)
(* Properties of the digit extraction.                                     *)
(***************************************************************************)
\* the tokens, by number, that occur in line at character position p
TokensAt(line, p) ==
    {k \in 1..Len(TOKENS_AND_VALUES) : OccursAt(line, p, TOKENS_AND_VALUES[k][1])}

\* the character positions of line at which some token occurs
MatchPositions(line) == {p \in 0..(Len(line) - 1) : TokensAt(line, p) # {}}

TokenValueAt(line, p) ==
    TOKENS_AND_VALUES[CHOOSE k \in TokensAt(line, p) : TRUE][2]

RECURSIVE Ascending(_)
\* the members of a set of numbers, smallest first
Ascending(S) ==
    IF S = {} THEN <<>>
    ELSE LET least == CHOOSE x \in S : \A y \in S : x <= y
         IN  <<least>> \o Ascending(S \ {least})

\* C12: in word mode the extractor yields one digit per character position
\* at which one of the 20 tokens matches, left to right (overlapping tokens
\* each count: "xtwone3four" yields 2, 1, 3, 4), and the line's value is
\* 10 * f + l for the leftmost and rightmost such positions, 0 when there is
\* none.
C12_OneDigitPerMatchingPosition ==
    include_words =>
        LET line == digit_scanner.chars
            seen == {p \in MatchPositions(line) : p < digit_scanner.current_position}
            order == Ascending(seen)
        IN  /\ \A p \in MatchPositions(line) : Cardinality(TokensAt(line, p)) = 1
            /\ all_digits = [j \in 1..Len(order) |-> TokenValueAt(line, order[j])]
            /\ number.some =>
                /\ seen = MatchPositions(line)
                /\ number.val =
                    IF order = <<>> THEN 0
                    ELSE 10 * TokenValueAt(line, order[1])
                            + TokenValueAt(line, order[Len(order)])
                /\ line = <<120, 116, 119, 111, 110, 101, 51, 102, 111, 117, 114>> =>
                    all_digits = <<2, 1, 3, 4>> /\ number.val = 24

C12_Witness ==
    /\ include_words
    /\ digit_scanner.chars = <<116, 119, 111, 110, 101>>
    /\ all_digits = <<2, 1>>
    /\ number = Some(21)

(***************************************************************************)
(* Properties of the schematic.                                            *)
(***************************************************************************)
\* the numbers that from_lines recorded for the lines given so far
Numbers == from_lines(schematic_lines).numbers

SquaresInGrid ==
    IF schematic_lines = <<>> THEN {}
    ELSE {<<cx, cy>> : cx \in 0..(Len(schematic_lines[1]) - 1),
                       cy \in 0..(Len(schematic_lines) - 1)}

\* the k squares a number stands on
OwnSquares(n) ==
    {<<n.position[1] + i, n.position[2]>> : i \in 0..(n.num_digits - 1)}

\* the squares of the grid in the box one square around a number, less its own
Box(n) ==
    {p \in SquaresInGrid :
        /\ n.position[1] - 1 <= p[1]
        /\ p[1] <= n.position[1] + n.num_digits
        /\ n.position[2] - 1 <= p[2]
        /\ p[2] <= n.position[2] + 1} \ OwnSquares(n)

\* C13: for a number at column x, row y with k digits, neighbours_for
\* returns exactly the squares of the grid with x-1 <= cx <= x+k and
\* y-1 <= cy <= y+1 that are not the number's own, each once.
C13_NeighboursAreTheBox ==
    schematic_op = "neighbours_for" =>
        /\ {schematic_ret[i] : i \in 1..Len(schematic_ret)} = Box(schematic_arg)
        /\ Len(schematic_ret) = Cardinality(Box(schematic_arg))
        /\ (schematic_lines = sample_schematic /\ schematic_arg.value = 35) =>
             schematic_ret = << <<1, 1>>, <<2, 1>>, <<3, 1>>, <<4, 1>>, <<1, 2>>,
                                <<4, 2>>, <<1, 3>>, <<2, 3>>, <<3, 3>>, <<4, 3>> >>

\* a number in the middle of three rows: all four sides of the box are there
C13_Witness ==
    /\ schematic_op = "neighbours_for"
    /\ schematic_lines = sample_schematic
    /\ schematic_arg = [value |-> 35, num_digits |-> 2, position |-> <<2, 2>>]
    /\ Len(schematic_ret) = 10

Stars == {p \in SquaresInGrid : schematic_lines[p[2] + 1][p[1] + 1] = 42}

\* the numbers, by their place in the list, that a square is adjacent to
AdjacentNumbers(p) == {i \in 1..Len(Numbers) : p \in Box(Numbers[i])}

GearStars == {p \in Stars : Cardinality(AdjacentNumbers(p)) = 2}

\* the product of the values of the two numbers around a gear star
RatioAt(p) ==
    LET i == CHOOSE i \in AdjacentNumbers(p) : TRUE
        j == CHOOSE j \in AdjacentNumbers(p) : j # i
    IN  Numbers[i].value * Numbers[j].value

RECURSIVE SumOfRatiosAt(_)
SumOfRatiosAt(S) ==
    IF S = {} THEN 0
    ELSE LET p == CHOOSE p \in S : TRUE
         IN  RatioAt(p) + SumOfRatiosAt(S \ {p})

\* C14: get_gears returns one gear for every star adjacent to exactly two
\* numbers and none for the other stars, the gear's ratio is the product of
\* the two numbers' values, and the answer is the sum of the ratios.
C14_OneGearPerStarWithTwoNumbers ==
    schematic_op = "extract_solution" =>
        LET gears == schematic_ret.gears
        IN  /\ \E star \in [1..Len(gears) -> GearStars] :
                /\ \A p \in GearStars : \E i \in 1..Len(gears) : star[i] = p
                /\ \A i, j \in 1..Len(gears) : star[i] = star[j] => i = j
                /\ \A i \in 1..Len(gears) :
                    /\ {gears[i].value_1, gears[i].value_2}
                         = {Numbers[n].value : n \in AdjacentNumbers(star[i])}
                    /\ Gear_ratio(gears[i]) = RatioAt(star[i])
            /\ Len(schematic_ret.answer) = DigitRunLen(schematic_ret.answer, 0)
            /\ DecimalSum(schematic_ret.answer, 0, Len(schematic_ret.answer))
                 = SumOfRatiosAt(GearStars)
            /\ schematic_lines = sample_schematic =>
                 schematic_ret.answer = <<52, 54, 55, 56, 51, 53>>

\* "2*2" over ".2*": the first star is adjacent to three numbers, the second
\* to two
C14_Witness ==
    /\ schematic_op = "extract_solution"
    /\ \E p \in Stars : Cardinality(AdjacentNumbers(p)) = 3
    /\ Cardinality(GearStars) = 1
    /\ Len(schematic_ret.gears) = 1

(***************************************************************************)
(* Properties of the walk.                                                 *)
(***************************************************************************)
\* the node reached from start_id by the first n instructions of the list
\* repeated cyclically: instruction k is directions[(k - 1) mod length];
\* <<>> when a node on the way has no definition
NodeAfter(n) ==
    LET length == Len(walk_map.directions)
        at[k \in 0..n] ==
            IF k = 0 THEN start_id
            ELSE IF at[k - 1] \notin DOMAIN walk_map.nodes THEN <<>>
            ELSE IF walk_map.directions[((k - 1) % length) + 1] = "Left"
            THEN walk_map.nodes[at[k - 1]].left
            ELSE walk_map.nodes[at[k - 1]].right
    IN  at[n]

\* C15: calculate_distance returns the smallest n >= 1 such that the node
\* reached from start after the first n instructions of the cyclically
\* repeated list satisfies end; Left follows the left edge, Right the right.
C15_DistanceIsFirstHit ==
    /\ walk_pc # "panicked" /\ num_steps > 0 => current_node_id = NodeAfter(num_steps)
    /\ walk_pc = "returned" /\ walk_map.directions # <<>> =>
        /\ num_steps >= 1
        /\ end_holds(walk_end, NodeAfter(num_steps))
        /\ \A n \in 1..(num_steps - 1) : ~end_holds(walk_end, NodeAfter(n))
        /\ (walk_map = less_simple_map /\ walk_end = "is_zzz") => num_steps = 6

\* the walk of the test: the list of three directions is used twice
C15_Witness ==
    /\ walk_pc = "returned"
    /\ walk_map = less_simple_map
    /\ walk_end = "is_zzz"
    /\ num_steps = 6

(***************************************************************************)
(* Properties of a hand.                                                   *)
(***************************************************************************)
\* how many labels occur exactly n times in the hand h
LabelsWithCount(h, n) ==
    Cardinality({l \in {h[i] : i \in 1..5} :
                    Cardinality({i \in 1..5 : h[i] = l}) = n})

\* the category of a hand by the multiset of its label counts
Category(h) ==
    IF LabelsWithCount(h, 5) = 1 THEN "FiveOfAKind"
    ELSE IF LabelsWithCount(h, 4) = 1 THEN "FourOfAKind"
    ELSE IF LabelsWithCount(h, 3) = 1 /\ LabelsWithCount(h, 2) = 1 THEN "FullHouse"
    ELSE IF LabelsWithCount(h, 3) = 1 THEN "ThreeOfAKind"
    ELSE IF LabelsWithCount(h, 2) = 2 THEN "TwoPair"
    ELSE IF LabelsWithCount(h, 2) = 1 THEN "OnePair"
    ELSE "HighCard"

CategoriesAscending ==
    <<"HighCard", "OnePair", "TwoPair", "ThreeOfAKind", "FullHouse",
      "FourOfAKind", "FiveOfAKind">>

\* C16: hand_type classifies a hand by the multiset of its label counts,
\* and the categories are ordered high-card < one-pair < two-pair <
\* three-of-a-kind < full-house < four-of-a-kind < five-of-a-kind.
C16_HandTypeByLabelCounts ==
    hand_op = "hand_type" =>
        /\ hand_ret = Category(hand)
        /\ \A i, j \in 1..7 :
            HandType_cmp(CategoriesAscending[i], CategoriesAscending[j]) = "Less"
                <=> i < j
        /\ hand = make_hand(<<75, 84, 74, 74, 84>>) => hand_ret = "TwoPair"

\* a full house
C16_Witness ==
    /\ hand_op = "hand_type"
    /\ LabelsWithCount(hand, 3) = 1
    /\ LabelsWithCount(hand, 2) = 1
    /\ hand_ret = "FullHouse"

JokerPositions(h) == {i \in 1..5 : h[i] = "Jack"}

NonJokerLabels == {Label[i] : i \in 1..13} \ {"Jack"}

\* the hands got from h by putting a non-joker label at every joker position
Replacements(h) ==
    {[i \in 1..5 |-> IF i \in JokerPositions(h) THEN choice[i] ELSE h[i]] :
        choice \in [JokerPositions(h) -> NonJokerLabels]}

Pow12(j) == IF j = 0 THEN 1 ELSE IF j = 1 THEN 12 ELSE IF j = 2 THEN 144
            ELSE IF j = 3 THEN 1728 ELSE IF j = 4 THEN 20736 ELSE 248832

\* C17: possible_hands yields exactly the 12^j hands got by replacing every
\* joker by a non-joker label, none with a joker left; best_hand_type is the
\* greatest hand_type among them, and hand_type itself without jokers.
C17_BestOverJokerReplacements ==
    /\ hand_op = "possible_hands" =>
        /\ Len(hand_ret) = Pow12(Cardinality(JokerPositions(hand)))
        /\ {hand_ret[k] : k \in 1..Len(hand_ret)} = Replacements(hand)
        /\ Cardinality(Replacements(hand)) = Len(hand_ret)
        /\ \A k \in 1..Len(hand_ret) : JokerPositions(hand_ret[k]) = {}
    /\ hand_op = "best_hand_type" =>
        /\ \E h \in Replacements(hand) : Category(h) = hand_ret
        /\ \A h \in Replacements(hand) :
            discriminant(CategoriesAscending, Category(h))
                <= discriminant(CategoriesAscending, hand_ret)
        /\ JokerPositions(hand) = {} => hand_ret = hand_type(hand)
        /\ hand \in {make_hand(<<84, 53, 53, 74, 53>>), make_hand(<<75, 84, 74, 74, 84>>), make_hand(<<81, 81, 81, 74, 65>>)} =>
             hand_ret = "FourOfAKind"

\* two jokers: 144 hands
C17_Witness ==
    /\ hand_op = "possible_hands"
    /\ Cardinality(JokerPositions(hand)) = 2
    /\ Len(hand_ret) = 144

(***************************************************************************)
(* Properties of the total score.                                          *)
(***************************************************************************)
\* 2 < 3 < ... < T < J < Q < K < A, and J < 2 < 3 < ... < T < Q < K < A
BasicLabels ==
    <<"Two", "Three", "Four", "Five", "Six", "Seven", "Eight", "Nine", "Ten",
      "Jack", "Queen", "King", "Ace">>

JokerLabels ==
    <<"Jack", "Two", "Three", "Four", "Five", "Six", "Seven", "Eight", "Nine",
      "Ten", "Queen", "King", "Ace">>

Strength(l) ==
    IF compare_type = "Basic" THEN discriminant(BasicLabels, l)
    ELSE discriminant(JokerLabels, l)

\* the place of the hand's category among the categories: of hand_type in
\* basic mode, of the best over the joker replacements in joker mode
CategoryPlace(h) ==
    IF compare_type = "Basic" THEN discriminant(CategoriesAscending, Category(h))
    ELSE CHOOSE place \in 1..7 :
            /\ \E g \in Replacements(h) :
                discriminant(CategoriesAscending, Category(g)) = place
            /\ \A g \in Replacements(h) :
                discriminant(CategoriesAscending, Category(g)) <= place

\* hand a sorts before hand b
Before(a, b) ==
    \/ CategoryPlace(a) < CategoryPlace(b)
    \/ /\ CategoryPlace(a) = CategoryPlace(b)
       /\ \E i \in 1..5 :
            /\ \A j \in 1..(i - 1) : a[j] = b[j]
            /\ Strength(a[i]) < Strength(b[i])

\* the orders of the hands that are ascending
AscendingOrders ==
    {p \in [1..Len(hands_with_bids) -> 1..Len(hands_with_bids)] :
        /\ \A i, j \in 1..Len(hands_with_bids) : p[i] = p[j] => i = j
        /\ \A i, j \in 1..Len(hands_with_bids) :
            i < j => ~Before(hands_with_bids[p[j]].hand, hands_with_bids[p[i]].hand)}

RankTimesBid(p) ==
    LET sum[i \in 0..Len(hands_with_bids)] ==
            IF i = 0 THEN 0 ELSE sum[i - 1] + i * hands_with_bids[p[i]].bid
    IN  sum[Len(hands_with_bids)]

HandsHeld == {hands_with_bids[i].hand : i \in 1..Len(hands_with_bids)}

\* C18: total_score is the sum of rank * bid, the rank being the place of
\* the hand when the hands are sorted ascending by category and then by the
\* first differing label (J between T and Q in basic mode, below 2 in joker
\* mode); the comparison is antisymmetric and transitive.
C18_TotalScoreByRank ==
    bids_op = "extract_solution" =>
        /\ Len(bids_ret) = DigitRunLen(bids_ret, 0)
        /\ \E p \in AscendingOrders :
            DecimalSum(bids_ret, 0, Len(bids_ret)) = RankTimesBid(p)
        /\ \A a, b \in HandsHeld :
            /\ compare_hands(compare_type, a, b) = "Less" <=> Before(a, b)
            /\ compare_hands(compare_type, a, b) = "Greater" <=> Before(b, a)
            /\ compare_hands(compare_type, a, b) = "Equal" <=> a = b
        /\ \A a, b, c \in HandsHeld :
            /\ compare_hands(compare_type, a, b) = "Less"
            /\ compare_hands(compare_type, b, c) = "Less"
            => compare_hands(compare_type, a, c) = "Less"
        /\ hands_with_bids = make_hands_with_bids =>
            bids_ret = IF compare_type = "Basic" THEN <<54, 52, 52, 48>> ELSE <<53, 57, 48, 53>>

\* in joker mode "J2345" and "22345" are both one pair and J is the lowest
C18_Witness ==
    /\ bids_op = "extract_solution"
    /\ compare_type = "Joker"
    /\ Len(hands_with_bids) = 2
    /\ hands_with_bids[1] = [hand |-> <<"Two", "Two", "Three", "Four", "Five">>, bid |-> 3]
    /\ hands_with_bids[2] = [hand |-> <<"Jack", "Two", "Three", "Four", "Five">>, bid |-> 2]
    /\ bids_ret = <<56>>

(***************************************************************************)
(* Properties of expand_once.                                              *)
(***************************************************************************)
RECURSIVE DifferenceRow(_, _)
\* the row of the d-th forward differences of a sequence
DifferenceRow(nums, d) ==
    IF d = 0 THEN nums
    ELSE LET above == DifferenceRow(nums, d - 1)
         IN  [i \in 1..(Len(above) - 1) |-> above[i + 1] - above[i]]

\* the depths at which the differences are an all-zero row that still has
\* an element
ZeroDepths(nums) ==
    {d \in 0..(Len(nums) - 1) :
        \A i \in 1..(Len(nums) - d) : DifferenceRow(nums, d)[i] = 0}

ZeroDepth(nums) == CHOOSE d \in ZeroDepths(nums) : \A e \in ZeroDepths(nums) : d <= e

\* C19: for n >= 2 numbers whose differences reach an all-zero row that
\* still has an element, expand_once ends after at most n - 1 rows of
\* differences and leaves n + 2 numbers: the old ones in the middle, and at
\* the ends the numbers that make every row of differences of the new
\* sequence the old row with front - inner front before it and back + inner
\* back behind it, the all-zero row at the same depth;
\* [10, 13, 16, 21, 30, 45] becomes [5, 10, 13, 16, 21, 30, 45, 68].
C19_ExpandOnceAddsBothEnds ==
    (/\ sequence_op = "expand_once"
     /\ Len(sequence_nums) >= 2
     /\ ZeroDepths(sequence_nums) # {}) =>
        /\ sequence_ret.ok
        /\ sequence_ret.steps <= Len(sequence_nums) - 1
        /\ Len(sequence) = Len(sequence_nums) + 2
        /\ SubSeq(sequence, 2, Len(sequence) - 1) = sequence_nums
        /\ ZeroDepths(sequence) # {}
        /\ ZeroDepth(sequence) = ZeroDepth(sequence_nums)
        /\ \A d \in 0..(ZeroDepth(sequence_nums) - 1) :
            LET r == DifferenceRow(sequence_nums, d)
                extended == DifferenceRow(sequence, d)
                inner == DifferenceRow(sequence, d + 1)
            IN  /\ extended[1] = r[1] - inner[1]
                /\ extended[Len(extended)] = r[Len(r)] + inner[Len(inner)]
        /\ sequence_nums = test_nums => sequence = <<5, 10, 13, 16, 21, 30, 45, 68>>

(***************************************************************************)
(* Properties of the races.                                                *)
(***************************************************************************)
\* the hold times h with 0 <= h < T that win: h * (T - h) > D
WinningHoldTimes(T, D) == {h \in 0..(T - 1) : h * (T - h) > D}

\* C20: num_ways_to_win(T, D) is the number of h with 0 <= h < T and
\* h * (T - h) > D, 0 when there is none, and margin_of_error is the product
\* of that number over the races.
C20_WaysAreTheWinningHoldTimes ==
    /\ races_op = "num_ways_to_win" =>
        races_ret = Cardinality(WinningHoldTimes(races_arg.total_time,
                                                 races_arg.distance_to_beat))
    /\ races_op = "margin_of_error" =>
        LET product[k \in 0..Len(races)] ==
                IF k = 0 THEN 1
                ELSE product[k - 1]
                        * Cardinality(WinningHoldTimes(races[k].total_time,
                                                       races[k].distance_to_beat))
        IN  /\ races_ret = product[Len(races)]
            /\ races = <<Race_new(7, 9), Race_new(15, 40), Race_new(30, 200)>> =>
                races_ret = 288

\* the first race of the tests: four hold times win
C20_Witness ==
    /\ races_op = "num_ways_to_win"
    /\ races_arg = Race_new(7, 9)
    /\ races_ret = 4

(***************************************************************************)
(* Properties of the universe.                                             *)
(***************************************************************************)
\* every line as long as the last one, and at least one column
Rectangular ==
    /\ universe_builder.width >= 1
    /\ \A k \in 1..Len(universe_lines) :
        Len(universe_lines[k]) = universe_builder.width

\* the galaxy-free columns strictly before x and rows strictly before y
EmptyColumnsBefore(x) ==
    {c \in 0..(x - 1) :
        \A i \in 1..Len(universe_builder.galaxies) :
            universe_builder.galaxies[i].x # c}

EmptyRowsBefore(y) ==
    {r \in 0..(y - 1) :
        \A i \in 1..Len(universe_builder.galaxies) :
            universe_builder.galaxies[i].y # r}

\* the galaxies as read, each shifted by (m - 1) for every empty line before
Shifted(m) ==
    [i \in 1..Len(universe_builder.galaxies) |->
        LET g == universe_builder.galaxies[i]
        IN  Point_new(g.x + (m - 1) * Cardinality(EmptyColumnsBefore(g.x)),
                      g.y + (m - 1) * Cardinality(EmptyRowsBefore(g.y)))]

Abs(v) == IF v < 0 THEN 0 - v ELSE v

\* the sum of |x1 - x2| + |y1 - y2| over the unordered pairs of points
RECURSIVE PairSum(_)
PairSum(points) ==
    IF Len(points) <= 1 THEN 0
    ELSE LET tail == Tail(points)
             toHead[j \in 0..Len(tail)] ==
                IF j = 0 THEN 0
                ELSE toHead[j - 1] + Abs(points[1].x - tail[j].x)
                                   + Abs(points[1].y - tail[j].y)
         IN  toHead[Len(tail)] + PairSum(tail)

\* C21: for every rectangular universe and every multiplier m >= 1, after
\* expand(m) each galaxy is at its original x plus (m - 1) times the number
\* of galaxy-free columns strictly before it and its original y plus
\* (m - 1) times the number of galaxy-free rows strictly before it, and the
\* answer is the sum over the unordered pairs of galaxies of
\* |x1 - x2| + |y1 - y2| on the shifted coordinates (374 and 1030 for the
\* universe of the tests with m = 2 and m = 10).
C21_ExpandShiftsByEmptyLines ==
    (/\ universe_op \in {"expand", "sum_of_shortest_paths", "extract_solution"}
     /\ Rectangular
     /\ universe_arg >= 1) =>
        /\ universe.galaxies = Shifted(universe_arg)
        /\ universe_op = "sum_of_shortest_paths" =>
            /\ universe_ret = PairSum(Shifted(universe_arg))
            /\ (universe_lines = simple_universe /\ universe_arg = 2) =>
                universe_ret = 374
            /\ (universe_lines = simple_universe /\ universe_arg = 10) =>
                universe_ret = 1030
        /\ universe_op = "extract_solution" =>
            universe_ret = to_string(PairSum(Shifted(universe_arg)))

(***************************************************************************)
(* Properties of the maze.                                                 *)
(***************************************************************************)
\* the two directions a pipe joins
PipeEnds(tile) ==
    CASE tile = "Vertical" -> {"North", "South"}
      [] tile = "Horizontal" -> {"East", "West"}
      [] tile = "NorthEast" -> {"North", "East"}
      [] tile = "NorthWest" -> {"North", "West"}
      [] tile = "SouthWest" -> {"South", "West"}
      [] tile = "SouthEast" -> {"South", "East"}
      [] OTHER -> {}

\* the pipe at index a has an end toward the adjacent index b
LeadsTo(a, b) ==
    LET g == maze.value.grid
    IN  \E d \in PipeEnds(maze.value.tiles[a + 1]) :
            /\ InGrid(g, (a % g.width) + DirectionStep(d).dx,
                         (a \div g.width) + DirectionStep(d).dy)
            /\ b = ((a \div g.width) + DirectionStep(d).dy) * g.width
                        + (a % g.width) + DirectionStep(d).dx

\* mutually connecting pipes
Joined(a, b) == LeadsTo(a, b) /\ LeadsTo(b, a)

MazeIndices == 0..(Len(maze.value.tiles) - 1)

RECURSIVE JoinedFrom(_)
\* the tiles joined to those of S through mutually connecting pipes
JoinedFrom(S) ==
    CHOOSE all \in
        {IF grown = S THEN S ELSE JoinedFrom(grown) :
            grown \in {S \cup {b \in MazeIndices : \E a \in S : Joined(a, b)}}} : TRUE

\* the tiles joined to the start
StartLoop == JoinedFrom({maze.value.start_index})

\* the start lies on one closed loop: both ends of every pipe joined to the
\* start are joined to a pipe
OnClosedLoop ==
    \A a \in StartLoop : Cardinality({b \in MazeIndices : Joined(a, b)}) = 2

\* C22: for a maze whose start tile lies on one closed pipe loop, solve
\* returns a path (the two walkers meet before they have gone around the
\* loop, and no step fails) that begins at the start index, holds every tile
\* of the loop exactly once, has every two consecutive entries joined by
\* mutually connecting pipes and its last entry joined to the start; the two
\* walkers end on the same tile after the same number of steps, and
\* max_distance_from_start is the path's length / 2.
C22_PathIsTheLoopOnce ==
    (maze.ok /\ OnClosedLoop) =>
        \A loop \in {StartLoop} :
            /\ maze_pc # "failed"
            /\ maze_pc = "loop" =>
                /\ Len(path_x) = Len(path_y)
                /\ 2 * (Len(path_x) - 1) < Cardinality(loop)
            /\ maze_pc \in {"solved", "returned"} =>
                LET path == solved_maze.path
                IN  /\ path[1] = maze.value.start_index
                    /\ {path[k] : k \in 1..Len(path)} = loop
                    /\ Len(path) = Cardinality(loop)
                    /\ \A k \in 1..(Len(path) - 1) : Joined(path[k], path[k + 1])
                    /\ Joined(path[Len(path)], path[1])
                    /\ Len(path_x) = Len(path_y)
                    /\ path_x[Len(path_x)] = path_y[Len(path_y)]
                    /\ maze_pc = "returned" => maze_ret = Len(path) \div 2
                    /\ maze_lines = simple_maze =>
                            path = <<6, 7, 8, 13, 18, 17, 16, 11>>

\* the ring of eight tiles around a 3 x 3 square, solved: four steps away
C22_Witness ==
    /\ maze_pc = "returned"
    /\ OnClosedLoop
    /\ Cardinality(StartLoop) = 8
    /\ Len(solved_maze.path) = 8
    /\ maze_ret = 4

(***************************************************************************)
(* Properties of the cards.                                                *)
(***************************************************************************)
\* the match count of card i: the actual numbers found among the winning
MatchCount(i) ==
    Cardinality({k \in 1..Len(cards[i].actual_numbers) :
        cards[i].actual_numbers[k] \in
            {cards[i].winning_numbers[j] : j \in 1..Len(cards[i].winning_numbers)}})

\* c(i) = 1 + the sum of c(j) over the j < i whose match count reaches i,
\* and the sum of c(1) .. c(n)
Instances ==
    LET c[i \in 1..Len(cards)] ==
            LET winners == {j \in 1..(i - 1) : j + MatchCount(j) >= i}
                won[j \in 0..(i - 1)] ==
                    IF j = 0 THEN 0
                    ELSE won[j - 1] + (IF j \in winners THEN c[j] ELSE 0)
            IN  1 + won[i - 1]
        total[i \in 0..Len(cards)] == IF i = 0 THEN 0 ELSE total[i - 1] + c[i]
    IN  total[Len(cards)]

\* C23: expanded_number returns the number of card instances processed when
\* the queue starts with one instance of each card and every processed
\* instance of card i with m matching numbers enqueues one instance of each
\* of the cards i + 1 .. i + m: the sum over i of c(i), with c(i) = 1 + the
\* sum of c(j) over the j < i whose match count reaches i (30 for the six
\* cards of the sample).
C23_ExpandedNumberCountsInstances ==
    cards_pc = "returned" =>
        /\ count = Instances
        /\ cards = sample_card_collection => count = 30

\* the six cards of the sample have been counted: 30 instances
C23_Witness ==
    /\ cards_pc = "returned"
    /\ cards = sample_card_collection
    /\ count = 30

\* C27: every id taken from the queue is a card's: 1 <= id <= the number of
\* cards, so no card outside the list is ever read, whatever the match
\* counts are.
C27_QueueIdsAreCards ==
    cards_pc \in {"loop", "returned", "panicked"} =>
        /\ queue_id # 0 => (1 <= queue_id /\ queue_id <= Len(cards))
        /\ cards_pc # "panicked"

(***************************************************************************)
(* Properties of the walk's termination.                                   *)
(***************************************************************************)
\* the node after one instruction from a node, the k-th of the walk;
\* <<>> from a node without a definition
Step(node, k) ==
    IF node \notin DOMAIN walk_map.nodes THEN <<>>
    ELSE IF walk_map.directions[((k - 1) % Len(walk_map.directions)) + 1] = "Left"
    THEN walk_map.nodes[node].left
    ELSE walk_map.nodes[node].right

RECURSIVE Trail(_)
\* the nodes of the walk from start_id: Trail(n)[k + 1] is the node after k
\* instructions
Trail(n) ==
    IF n = 0 THEN <<start_id>>
    ELSE CHOOSE longer \in
            {Append(walked, Step(walked[Len(walked)], Len(walked))) :
                walked \in {Trail(n - 1)}} : TRUE

\* the end predicates, by the characters of the id
EndNode(end, id) ==
    IF end = "is_zzz" THEN id = <<90, 90, 90>>
    ELSE id # <<>> /\ id[Len(id)] = 90

\* the steps n >= 1 after which the walk is on an end node, every node
\* before having a definition; with three nodes, of which one at least is an
\* end node, a first such step is at most 1 + 2 * Len(directions), which is
\* below MaxSteps
HitSteps ==
    IF walk_map.directions = <<>> THEN {}
    ELSE {n \in 1..MaxSteps :
            \E trail \in {Trail(n)} :
                /\ EndNode(walk_end, trail[n + 1])
                /\ \A k \in 1..n : trail[k] \in DOMAIN walk_map.nodes}

\* the instruction list is not empty and every node of the walk is defined
EveryNodeDefined ==
    /\ walk_map.directions # <<>>
    /\ \E trail \in {Trail(MaxSteps)} :
        \A k \in 1..(MaxSteps + 1) : trail[k] \in DOMAIN walk_map.nodes

\* C24: with a non-empty instruction list and every node reached defined,
\* calculate_distance terminates if and only if a node satisfying the
\* predicate is reached along the walk from the start under the cyclically
\* repeated instructions: when one is reached the call returns, it returns
\* only then, and when none is reached the loop is never left, one turn
\* following the other as far as the steps are counted.
C24_TerminatesIffEndReached ==
    /\ (HitSteps # {}) ~> (walk_pc = "returned")
    /\ [](walk_pc = "returned" => HitSteps # {})
    /\ []((EveryNodeDefined /\ HitSteps = {}) => walk_pc = "loop")
    /\ (EveryNodeDefined /\ HitSteps = {}) ~> (num_steps = MaxSteps)

\* a walk on defined nodes that reaches no end node is still in its loop
\* after every step that is counted
C24_Witness ==
    /\ EveryNodeDefined
    /\ HitSteps = {}
    /\ walk_pc = "loop"
    /\ num_steps = MaxSteps

(***************************************************************************)
(* Properties of the day 8 part 2 solver.                                  *)
(***************************************************************************)
\* the directions and the definitions the builder holds
GhostDirections == map_builder.directions.val

GhostDefined ==
    {map_builder.node_definitions[k][1] : k \in 1..Len(map_builder.node_definitions)}

GhostNode(id) ==
    LET defining == {k \in 1..Len(map_builder.node_definitions) :
                        map_builder.node_definitions[k][1] = id}
    IN  map_builder.node_definitions[CHOOSE k \in defining : \A j \in defining : j <= k][2]

\* a well-formed map: directions, a start node, and every id that is named
\* has a definition
WellFormedMap ==
    /\ map_builder.directions.some
    /\ GhostDirections # <<>>
    /\ \E id \in GhostDefined : id[Len(id)] = 65
    /\ \A id \in GhostDefined :
        GhostNode(id).left \in GhostDefined /\ GhostNode(id).right \in GhostDefined

\* more steps than three walkers and the place in the directions have
\* states together: what has not happened by then never happens
GhostSteps ==
    Cardinality(GhostDefined) * Cardinality(GhostDefined)
        * Cardinality(GhostDefined) * Len(GhostDirections)

RECURSIVE GhostTrail(_, _)
\* GhostTrail(id, n)[k + 1]: where the walker from id is after k steps
GhostTrail(id, n) ==
    IF n = 0 THEN <<id>>
    ELSE CHOOSE longer \in
        {Append(walked,
            IF GhostDirections[((Len(walked) - 1) % Len(GhostDirections)) + 1] = "Left"
            THEN GhostNode(walked[Len(walked)]).left
            ELSE GhostNode(walked[Len(walked)]).right) :
            walked \in {GhostTrail(id, n - 1)}} : TRUE

\* the step counts n >= 1 at which every walker is on a node ending in 'Z'
SimultaneousSteps ==
    LET starts == {id \in GhostDefined : id[Len(id)] = 65}
        trails == [id \in starts |-> GhostTrail(id, GhostSteps)]
    IN  {n \in 1..GhostSteps :
            \A id \in starts : trails[id][n + 1][3] = 90}

\* C25: for every well-formed map the answer of part 2 (the least common
\* multiple of the step counts of the start nodes, each to its first node
\* ending in 'Z') is the smallest step count n >= 1 at which the walkers
\* started together from every node ending in 'A' are all on nodes ending
\* in 'Z'.
C25_LcmIsTheFirstSimultaneousStep ==
    (/\ part2_op = "extract_solution"
     /\ part2_ret.kind = "ok"
     /\ WellFormedMap) =>
        \E steps \in {SimultaneousSteps} :
            /\ steps # {}
            /\ part2_ret.value =
                to_string(CHOOSE n \in steps : \A m \in steps : n <= m)

\* C28: extract_solution after no line was given returns a value, Ok with
\* an answer or Err, and does not panic.
C28_ExtractOnEmptyInputReturns ==
    (part2_op = "extract_solution" /\ lines_added = 0) =>
        part2_ret.kind \in {"ok", "err"}

(***************************************************************************)
(* Properties of the numbers of a schematic.                               *)
(***************************************************************************)
\* the maximal runs of ASCII digits of a line, each as <<first column, length>>
DigitRuns(line) ==
    {run \in (0..(Len(line) - 1)) \X (1..Len(line)) :
        /\ run[1] + run[2] <= Len(line)
        /\ \A i \in (run[1] + 1)..(run[1] + run[2]) : is_ascii_digit(line[i])
        /\ (run[1] >= 1 => ~is_ascii_digit(line[run[1]]))
        /\ (run[1] + run[2] < Len(line) =>
                ~is_ascii_digit(line[run[1] + run[2] + 1]))}

\* C26: for every line of a schematic and every maximal run of digits in it,
\* from_lines records one Number that starts at the run's first column and
\* has the run's length as num_digits (leading zeros included), and it
\* records nothing else; from_lines does not abort.
C26_OneNumberPerDigitRun ==
    \A found \in {from_lines(schematic_lines)} :
        /\ found.status # "panic"
        /\ found.status = "ok" =>
            /\ \A y \in 1..Len(schematic_lines) :
                \A run \in DigitRuns(schematic_lines[y]) :
                    Cardinality({i \in 1..Len(found.numbers) :
                        /\ found.numbers[i].position = <<run[1], y - 1>>
                        /\ found.numbers[i].num_digits = run[2]}) = 1
            /\ \A i \in 1..Len(found.numbers) :
                <<found.numbers[i].position[1], found.numbers[i].num_digits>>
                    \in DigitRuns(schematic_lines[found.numbers[i].position[2] + 1])

(***************************************************************************)
(* Properties of the almanac's lines.                                      *)
(***************************************************************************)
\* C29: handle_line never panics: a range line before any "... map:" line
\* and a "seeds: " line with an odd number of values in Range mode return
\* (with an error) and leave the almanac as it was.
C29_HandleLineNeverPanics ==
    almanac_op = "handle_line" => ~almanac_panicked

(***************************************************************************)
(* Properties of the day 2 part 2 solver.                                  *)
(***************************************************************************)
\* the largest count of one colour over the cube sets of a game
MaxCount(cube_sets, colour) ==
    CHOOSE m \in {0} \cup {cube_sets[i][colour] : i \in 1..Len(cube_sets)} :
        \A i \in 1..Len(cube_sets) : cube_sets[i][colour] <= m

\* C30: for every line that is a game, handle_line returns and has added to
\* the running sum the product of the largest red, green and blue counts of
\* the game's cube sets, as numbers (not wrapped to 16 bits).
C30_AddsTheExactProduct ==
    cubes_op = "handle_line" =>
        \A game \in {Game_from_scanner(new(cubes_arg.line))} :
            game.ok =>
                /\ cubes_ret.kind = "ok"
                /\ cube_sum = cubes_arg.sum
                        + MaxCount(game.value.cube_sets, "num_red")
                        * MaxCount(game.value.cube_sets, "num_green")
                        * MaxCount(game.value.cube_sets, "num_blue")

=============================================================================
